---- MODULE Spec2Model ----
(***************************************************************************)
(* The SimpleBuffers schema compiler front end: the semantic compiler      *)
(* (parse_ast: name collection, per-declaration resolution, enum-size      *)
(* backfill) and the lexer with the syntax builder's constructor.          *)
(*                                                                         *)
(* Text is a sequence of one-character strings. An unsigned 64-bit value   *)
(* is a tuple of four 16-bit limbs, most significant first.                *)
(***************************************************************************)
EXTENDS Integers, Sequences, FiniteSets, TLC

VARIABLES
    root,        \* the syntax tree handed to parse_ast (a File node)
    pc,          \* position of parse_ast: collect/resolve/enum/inject/done/error
    stack,       \* DepthFirstSyntaxTreeInterator.stack, as node paths (top = last)
    struct_map,  \* HashMap<String, StructType>
    result,      \* SBSchema under construction
    top_i,       \* index of the top-level node being resolved
    entry_i,     \* parse_enum: index of the entry being processed
    variants,    \* parse_enum: variants accepted so far
    enum_size,   \* parse_enum: running width
    inj_e,       \* backfill: index of the enum
    inj_s,       \* backfill: index of the sequence
    err,         \* the CompilerError returned (kind and the path of its token)
    source,      \* Tokenizer.source
    lex_pc,      \* idle/start/ready/failed/built: which constructor has run
    tok,         \* Tokenizer: cursor, next_token, line_num, col_num
    lex_err,     \* the TokenizerError last returned
    yielded,     \* the items next() has returned so far (tokens and errors)
    nones,       \* the number of times next() has returned None
    builder,     \* none/ok/failed: the result of AstBuilder::new
    current_token, \* AstBuilder.current_token
    ast,         \* the result of AstBuilder::parse, once it has returned
    schema,      \* main_impl: the SBSchema handed to the generator stage
    reserved,    \* the generator's reserved_identifiers
    checked,     \* the result of check_reserved, once it has returned
    main_pc,     \* position of main_impl
    generated,   \* the number of calls of the generator's generate
    exit_code,   \* main: none/SUCCESS/FAILURE
    main_err,    \* the stage whose error main_impl returns, none if none
    done_stages, \* the stages of main_impl that have returned Ok, in order
    walk_from,   \* the node iter_depth_first was called on, as its path
    walked,      \* the nodes the iterator has returned so far, as paths
    expected     \* the last call of AstBuilder::expect: its argument and result

cvars == <<root, pc, stack, struct_map, result, top_i, entry_i, variants,
           enum_size, inj_e, inj_s, err>>

lvars ==
    <<source, lex_pc, tok, lex_err, yielded, nones, builder, current_token, ast>>

mvars ==
    <<schema, reserved, checked, main_pc, generated, exit_code, main_err,
      done_stages>>

wvars == <<walk_from, walked>>

xvars == <<expected>>

vars == <<cvars, lvars, mvars, wvars, xvars>>

NoErr == [kind |-> "none", at |-> <<>>]

Ok(v) == [ok |-> TRUE, val |-> v]

Err(kind, at) == [ok |-> FALSE, err |-> [kind |-> kind, at |-> at]]

Range(s) == {s[i] : i \in DOMAIN s}

(***************************************************************************)
(* Syntax tree nodes (SyntaxTree).                                         *)
(***************************************************************************)
File(children) == [k |-> "File", children |-> children]

SequenceNode(name, fields) == [k |-> "Sequence", name |-> name, fields |-> fields]

EnumNode(name, entries) == [k |-> "Enum", name |-> name, entries |-> entries]

FieldNode(name, ty) == [k |-> "Field", name |-> name, ty |-> ty]

EnumEntryNode(name, value) == [k |-> "EnumEntry", name |-> name, value |-> value]

TypeNode(name) == [k |-> "Type", name |-> name]

ArrayNode(elem) == [k |-> "Array", elem |-> elem]

OneOfNode(fields) == [k |-> "OneOf", fields |-> fields]

\* The direct children of a node, in order.
Children(node) ==
    CASE node.k = "File" -> node.children
      [] node.k = "Sequence" -> node.fields
      [] node.k = "Enum" -> node.entries
      [] node.k = "OneOf" -> node.fields
      [] node.k = "Field" -> <<node.ty>>
      [] node.k = "Array" -> <<node.elem>>
      [] OTHER -> <<>>

RECURSIVE NodeAt(_, _)
\* The node reached from `node` by following child indices.
NodeAt(node, path) ==
    IF path = <<>> THEN node
    ELSE NodeAt(Children(node)[Head(path)], Tail(path))

\* DepthFirstNext with the children pushed in their order.
DepthFirstNextForward(tree, stk) ==
    LET top == stk[Len(stk)]
        n   == Len(Children(NodeAt(tree, top)))
    IN  SubSeq(stk, 1, Len(stk) - 1) \o [i \in 1..n |-> top \o <<i>>]

\* One call of DepthFirstSyntaxTreeInterator::next on a non-empty stack: pop
\* the top, push its children in reverse order.
DepthFirstNext(tree, stk) ==
    LET top == stk[Len(stk)]
        n   == Len(Children(NodeAt(tree, top)))
    IN  SubSeq(stk, 1, Len(stk) - 1) \o [i \in 1..n |-> top \o <<n + 1 - i>>]

(***************************************************************************)
(* Unsigned 64-bit values and str::parse::<u64>.                           *)
(***************************************************************************)
Limb == 2 ^ 16

U8Max == <<0, 0, 0, 255>>

U16Max == <<0, 0, 0, 65535>>

U32Max == <<0, 0, 65535, 65535>>

U64Max == <<65535, 65535, 65535, 65535>>

\* a <= b on limb tuples.
LeU64(a, b) ==
    \/ a = b
    \/ \E i \in 1..4 : a[i] < b[i] /\ \A j \in 1..(i - 1) : a[j] = b[j]

DigitChars == <<"0", "1", "2", "3", "4", "5", "6", "7", "8", "9">>

IsDigit(c) == \E d \in 1..10 : DigitChars[d] = c

DigitVal(c) == (CHOOSE d \in 1..10 : DigitChars[d] = c) - 1

\* v * 10 + d with overflow detection (checked_mul, checked_add).
MulAdd(v, d) ==
    LET t4 == v[4] * 10 + d
        t3 == v[3] * 10 + (t4 \div Limb)
        t2 == v[2] * 10 + (t3 \div Limb)
        t1 == v[1] * 10 + (t2 \div Limb)
    IN  IF t1 \div Limb > 0 THEN Err("overflow", <<>>)
        ELSE Ok(<<t1 % Limb, t2 % Limb, t3 % Limb, t4 % Limb>>)

RECURSIVE ParseDigits(_, _, _)
ParseDigits(text, i, acc) ==
    IF i > Len(text) THEN Ok(acc)
    ELSE IF ~IsDigit(text[i]) THEN Err("invalid_digit", <<>>)
    ELSE LET r == MulAdd(acc, DigitVal(text[i]))
         IN  IF r.ok THEN ParseDigits(text, i + 1, r.val) ELSE r

\* entry_value.parse::<u64>()
ParseU64(text) ==
    IF text = <<>> THEN Err("empty", <<>>)
    ELSE ParseDigits(text, 1, <<0, 0, 0, 0>>)

(***************************************************************************)
(* Resolved schema (simplebuffers-core).                                   *)
(***************************************************************************)
\* Array of primitive names and internal representations.
PRIMITIVES ==
    << <<"bool", "Bool">>, <<"i8", "I8">>, <<"i16", "I16">>, <<"i32", "I32">>,
       <<"i64", "I64">>, <<"u8", "U8">>, <<"u16", "U16">>, <<"u32", "U32">>,
       <<"u64", "U64">>, <<"f32", "F32">>, <<"f64", "F64">> >>

\* Primitive::size
PrimitiveSize(p) ==
    CASE p \in {"Bool", "I8", "U8"} -> 1
      [] p \in {"I16", "U16"} -> 2
      [] p \in {"I32", "U32", "F32"} -> 4
      [] p \in {"I64", "U64", "F64"} -> 8

\* Type::size
TypeSize(ty) ==
    CASE ty.k = "Primitive" -> PrimitiveSize(ty.p)
      [] ty.k = "Sequence" -> 2
      [] ty.k = "Enum" -> ty.size
      [] ty.k = "Array" -> 4
      [] ty.k = "String" -> 2
      [] ty.k = "OneOf" -> 3

Field(name, ty, index) == [name |-> name, ty |-> ty, index |-> index]

(***************************************************************************)
(* parse_ast and its helpers (simplebuffers-compiler/src/compiler).        *)
(***************************************************************************)
EmptyMap == [n \in {} |-> "Sequence"]

EmptySchema == [sequences |-> <<>>, enums |-> <<>>]

MapInsert(m, name, kind) ==
    [n \in DOMAIN m \cup {name} |-> IF n = name THEN kind ELSE m[n]]

\* VerifyStructName without the lookup in the symbol table.
VerifyStructNameReservedOnly(name, m) ==
    IF \E i \in DOMAIN PRIMITIVES : PRIMITIVES[i][1] = name THEN "reserved"
    ELSE "ok"

\* Verifies that a struct name is not reserved and is unique.
VerifyStructName(name, m) ==
    IF \E i \in DOMAIN PRIMITIVES : PRIMITIVES[i][1] = name THEN "reserved"
    ELSE IF name \in DOMAIN m THEN "exists"
    ELSE "ok"

RECURSIVE ParseType(_, _, _)
RECURSIVE ParseOneOfFields(_, _, _, _, _)
\* ParseType with the symbol table looked up before the string type.
ParseTypeTableFirst(ty, m, path) ==
    CASE ty.k = "Type" ->
            IF ty.name \in DOMAIN m THEN
                IF m[ty.name] = "Sequence"
                THEN Ok([k |-> "Sequence", name |-> ty.name])
                ELSE Ok([k |-> "Enum", name |-> ty.name, size |-> 0])
            ELSE IF ty.name = "string" THEN Ok([k |-> "String"])
            ELSE IF \E i \in DOMAIN PRIMITIVES : PRIMITIVES[i][1] = ty.name THEN
                LET i == CHOOSE j \in DOMAIN PRIMITIVES : PRIMITIVES[j][1] = ty.name
                IN  Ok([k |-> "Primitive", p |-> PRIMITIVES[i][2]])
            ELSE Err("invalid_type", path)
      [] ty.k = "Array" ->
            LET r == ParseType(ty.elem, m, path \o <<1>>)
            IN  IF r.ok THEN Ok([k |-> "Array", elem |-> r.val]) ELSE r
      [] ty.k = "OneOf" -> ParseOneOfFields(ty.fields, 1, <<>>, m, path)

\* Parse a type. `path` is the path of the type's node.
ParseType(ty, m, path) ==
    CASE ty.k = "Type" ->
            IF ty.name = "string" THEN Ok([k |-> "String"])
            ELSE IF ty.name \in DOMAIN m THEN
                IF m[ty.name] = "Sequence"
                THEN Ok([k |-> "Sequence", name |-> ty.name])
                ELSE Ok([k |-> "Enum", name |-> ty.name, size |-> 0])
            ELSE IF \E i \in DOMAIN PRIMITIVES : PRIMITIVES[i][1] = ty.name THEN
                LET i == CHOOSE j \in DOMAIN PRIMITIVES :
                             /\ PRIMITIVES[j][1] = ty.name
                             /\ \A l \in 1..(j - 1) : PRIMITIVES[l][1] # ty.name
                IN  Ok([k |-> "Primitive", p |-> PRIMITIVES[i][2]])
            ELSE Err("invalid_type", path)
      [] ty.k = "Array" ->
            LET r == ParseType(ty.elem, m, path \o <<1>>)
            IN  IF r.ok THEN Ok([k |-> "Array", elem |-> r.val]) ELSE r
      [] ty.k = "OneOf" -> ParseOneOfFields(ty.fields, 1, <<>>, m, path)

\* ParseOneOfFields without the check of field_names.
ParseOneOfFieldsUnchecked(fields, i, res, m, path) ==
    IF i > Len(fields) THEN Ok([k |-> "OneOf", fields |-> res])
    ELSE LET r == ParseType(fields[i].ty, m, path \o <<i, 1>>)
         IN  IF r.ok
             THEN ParseOneOfFields(fields, i + 1,
                      Append(res, Field(fields[i].name, r.val, i - 1)), m, path)
             ELSE r

\* The loop over the fields of a oneof, from field i on, with the fields
\* resolved so far in res (field_names is the list of their names).
ParseOneOfFields(fields, i, res, m, path) ==
    IF i > Len(fields) THEN Ok([k |-> "OneOf", fields |-> res])
    ELSE IF \E j \in DOMAIN res : res[j].name = fields[i].name
    THEN Err("dup_field", path \o <<i>>)
    ELSE LET r == ParseType(fields[i].ty, m, path \o <<i, 1>>)
         IN  IF r.ok
             THEN ParseOneOfFields(fields, i + 1,
                      Append(res, Field(fields[i].name, r.val, i - 1)), m, path)
             ELSE r

RECURSIVE ParseSequenceFields(_, _, _, _, _, _)
\* The loop over the fields of a sequence, from field i on.
ParseSequenceFields(fields, i, res, offset, m, path) ==
    IF i > Len(fields) THEN Ok(res)
    ELSE IF \E j \in DOMAIN res : res[j].name = fields[i].name
    THEN Err("dup_field", path \o <<i>>)
    ELSE LET r == ParseType(fields[i].ty, m, path \o <<i, 1>>)
         IN  IF r.ok
             THEN ParseSequenceFields(fields, i + 1,
                      Append(res, Field(fields[i].name, r.val, offset)),
                      offset + TypeSize(r.val), m, path)
             ELSE r

\* Parse a sequence. `path` is the path of the sequence's node.
ParseSequence(name, fields, m, path) ==
    LET r == ParseSequenceFields(fields, 1, <<>>, 0, m, path)
    IN  IF r.ok THEN Ok([name |-> name, fields |-> r.val]) ELSE r

\* GrowEnumSize without the skip of the candidates below the running width.
GrowEnumSizeOfLast(size, value) ==
    IF LeU64(value, U8Max) THEN 1
    ELSE IF LeU64(value, U16Max) THEN 2
    ELSE IF LeU64(value, U32Max) THEN 4
    ELSE 8

\* The width after one more value: the first candidate width not below the
\* running width whose maximum accommodates the value.
GrowEnumSize(size, value) ==
    IF size <= 1 /\ LeU64(value, U8Max) THEN 1
    ELSE IF size <= 2 /\ LeU64(value, U16Max) THEN 2
    ELSE IF size <= 4 /\ LeU64(value, U32Max) THEN 4
    ELSE IF size <= 8 /\ LeU64(value, U64Max) THEN 8
    ELSE size

\* FirstConflict without the comparison of values.
FirstConflictByName(vs, entry_name, parsed_value) ==
    IF \E j \in DOMAIN vs : vs[j].name = entry_name
    THEN CHOOSE j \in DOMAIN vs :
            /\ vs[j].name = entry_name
            /\ \A l \in 1..(j - 1) : vs[l].name # entry_name
    ELSE 0

\* The first variant (in order) that conflicts with the entry, by name (checked
\* first) or by value; 0 if none.
FirstConflict(vs, entry_name, parsed_value) ==
    IF \E j \in DOMAIN vs : vs[j].name = entry_name \/ vs[j].value = parsed_value
    THEN CHOOSE j \in DOMAIN vs :
            /\ vs[j].name = entry_name \/ vs[j].value = parsed_value
            /\ \A l \in 1..(j - 1) :
                   vs[l].name # entry_name /\ vs[l].value # parsed_value
    ELSE 0

\* One iteration of parse_enum's loop: the entry is checked against the
\* variants accepted so far and added.
EnumEntryStep(vs, size, entry, path) ==
    LET parsed == ParseU64(entry.value)
    IN  IF ~parsed.ok THEN Err("invalid_integer", path)
        ELSE LET c == FirstConflict(vs, entry.name, parsed.val)
             IN  IF c # 0
                 THEN IF vs[c].name = entry.name
                      THEN Err("dup_entry_name", path)
                      ELSE Err("dup_entry_value", path)
                 ELSE Ok([variants |-> Append(vs, [name |-> entry.name,
                                                   value |-> parsed.val]),
                          size |-> GrowEnumSize(size, parsed.val)])

RECURSIVE ParseEnumEntries(_, _, _, _, _)
ParseEnumEntries(entries, i, vs, size, path) ==
    IF i > Len(entries) THEN Ok([variants |-> vs, size |-> size])
    ELSE LET r == EnumEntryStep(vs, size, entries[i], path \o <<i>>)
         IN  IF r.ok
             THEN ParseEnumEntries(entries, i + 1, r.val.variants, r.val.size, path)
             ELSE r

\* Parse an enum. `path` is the path of the enum's node.
ParseEnum(name, entries, path) ==
    LET r == ParseEnumEntries(entries, 1, <<>>, 1, path)
    IN  IF r.ok
        THEN Ok([name |-> name, size |-> r.val.size, variants |-> r.val.variants])
        ELSE r

RECURSIVE ProcessType(_, _, _)
RECURSIVE InjectLoop(_, _, _, _, _)
\* ProcessType without the descent into arrays.
ProcessTypeNoArrays(enum_name, size, ty) ==
    CASE ty.k = "Enum" ->
            IF ty.name = enum_name
            THEN [ty |-> [ty EXCEPT !.size = size], inc |-> size]
            ELSE [ty |-> ty, inc |-> 0]
      [] ty.k = "OneOf" ->
            [ty |-> [ty EXCEPT !.fields = InjectLoop(enum_name, size, ty.fields, 1, 0)],
             inc |-> 0]
      [] OTHER -> [ty |-> ty, inc |-> 0]

\* Injects the enum into a single type. Returns the new type and the size the
\* field increased by.
ProcessType(enum_name, size, ty) ==
    CASE ty.k = "Enum" ->
            IF ty.name = enum_name
            THEN [ty |-> [ty EXCEPT !.size = size], inc |-> size]
            ELSE [ty |-> ty, inc |-> 0]
      [] ty.k = "Array" ->
            [ty |-> [ty EXCEPT !.elem = ProcessType(enum_name, size, ty.elem).ty],
             inc |-> 0]
      [] ty.k = "OneOf" ->
            [ty |-> [ty EXCEPT !.fields = InjectLoop(enum_name, size, ty.fields, 1, 0)],
             inc |-> 0]
      [] OTHER -> [ty |-> ty, inc |-> 0]

\* The loop of inject_enum_size_into from field i on, with the running
\* adjustment adjust_by.
InjectLoop(enum_name, size, fields, i, adjust_by) ==
    IF i > Len(fields) THEN fields
    ELSE LET p == ProcessType(enum_name, size, fields[i].ty)
             f == [fields[i] EXCEPT !.index = @ + adjust_by, !.ty = p.ty]
         IN  InjectLoop(enum_name, size, [fields EXCEPT ![i] = f], i + 1,
                        adjust_by + p.inc)

\* InjectEnumSizeInto without the adjustment of the following offsets.
InjectEnumSizeIntoNoShift(enum_name, size, fields) ==
    [i \in DOMAIN fields |->
        [fields[i] EXCEPT !.ty = ProcessType(enum_name, size, fields[i].ty).ty]]

\* InjectEnumSizeInto that leaves the fields as they are.
InjectNothing(enum_name, size, fields) == fields

\* Finds any enum fields that match the given name and injects the given size
\* into them.
InjectEnumSizeInto(enum_name, size, fields) ==
    InjectLoop(enum_name, size, fields, 1, 0)

\* The symbol table parse_sequence would see if names were collected only up to
\* the declaration being resolved.
ResolveTopSequenceSinglePass(file, i, m) ==
    LET seen == {file.children[j].name : j \in 1..i} \cap DOMAIN m
    IN  ParseSequence(file.children[i].name, file.children[i].fields,
                      [n \in seen |-> m[n]], <<i>>)

\* parse_ast's call of parse_sequence for the top-level node i.
ResolveTopSequence(file, i, m) ==
    ParseSequence(file.children[i].name, file.children[i].fields, m, <<i>>)

RECURSIVE CollectLoop(_, _, _)
\* parse_ast, first loop, run to its end.
CollectLoop(file, stk, m) ==
    IF stk = <<>> THEN Ok(m)
    ELSE LET path == stk[Len(stk)]
             node == NodeAt(file, path)
             rest == DepthFirstNext(file, stk)
         IN  IF node.k \in {"Sequence", "Enum"}
             THEN LET v == VerifyStructName(node.name, m)
                  IN  IF v # "ok" THEN Err(v, path)
                      ELSE CollectLoop(file, rest, MapInsert(m, node.name, node.k))
             ELSE CollectLoop(file, rest, m)

RECURSIVE ResolveLoop(_, _, _, _)
\* parse_ast, second loop, run to its end.
ResolveLoop(file, i, m, res) ==
    IF i > Len(file.children) THEN Ok(res)
    ELSE IF file.children[i].k = "Sequence"
    THEN LET r == ResolveTopSequence(file, i, m)
         IN  IF r.ok
             THEN ResolveLoop(file, i + 1, m,
                              [res EXCEPT !.sequences = Append(@, r.val)])
             ELSE r
    ELSE LET r == ParseEnum(file.children[i].name, file.children[i].entries, <<i>>)
         IN  IF r.ok
             THEN ResolveLoop(file, i + 1, m, [res EXCEPT !.enums = Append(@, r.val)])
             ELSE r

RECURSIVE InjectAll(_, _, _)
\* parse_ast, the backfill loops from (e, s) on, run to their end.
InjectAll(res, e, s) ==
    IF e > Len(res.enums) \/ Len(res.sequences) = 0 THEN res
    ELSE LET r == [res EXCEPT !.sequences[s].fields =
                      InjectEnumSizeInto(res.enums[e].name, res.enums[e].size, @)]
         IN  IF s < Len(res.sequences) THEN InjectAll(r, e, s + 1)
             ELSE InjectAll(r, e + 1, 1)

\* ParseAst with the declarations resolved before the result of the name
\* collection is looked at.
ParseAstResolveFirst(file) ==
    LET c == CollectLoop(file, << <<>> >>, EmptyMap)
        m == [n \in {d.name : d \in Range(file.children)} |->
                 (CHOOSE d \in Range(file.children) : d.name = n).k]
        r == ResolveLoop(file, 1, m, EmptySchema)
    IN  IF ~r.ok THEN r
        ELSE IF ~c.ok THEN c
        ELSE Ok(InjectAll(r.val, 1, 1))

\* parse_ast run to its end on a file.
ParseAst(file) ==
    LET c == CollectLoop(file, << <<>> >>, EmptyMap)
    IN  IF ~c.ok THEN c
        ELSE LET r == ResolveLoop(file, 1, c.val, EmptySchema)
             IN  IF ~r.ok THEN r ELSE Ok(InjectAll(r.val, 1, 1))

(***************************************************************************)
(* The syntax trees parse_ast is run on.                                   *)
(***************************************************************************)
MaxDecls == 3

MaxFields == 3

MaxScope == 2

MaxEntries == 3

SeqsUpTo(pool, n) == UNION {[1..l -> pool] : l \in 0..n}

U8Type == TypeNode("u8")

EntryA0 == EnumEntryNode("a", <<"0">>)

\* Declarations of every kind under colliding, distinct and reserved names.
DeclNames == {"S", "E", "u8"}

NameDecls ==
    {SequenceNode(n, <<FieldNode("x", TypeNode("E"))>>) : n \in DeclNames}
    \cup {EnumNode(n, <<EntryA0>>) : n \in DeclNames}

NameFiles == {File(ds) : ds \in SeqsUpTo(NameDecls, MaxDecls)}

\* Sequences S and T and enums E (1 byte) and F (4 bytes) in several orders;
\* the fields of S take every kind of type.
InnerOneOf ==
    OneOfNode(<<FieldNode("x", TypeNode("F")), FieldNode("y", U8Type),
                FieldNode("z", TypeNode("E"))>>)

LayoutTypes ==
    {TypeNode("i32"), TypeNode("string"), TypeNode("T"), TypeNode("E"),
     TypeNode("F"), ArrayNode(ArrayNode(TypeNode("E"))),
     OneOfNode(<<FieldNode("x", TypeNode("E")), FieldNode("y", InnerOneOf),
                 FieldNode("z", ArrayNode(TypeNode("F")))>>)}

LayoutFieldNames == <<"x", "y", "z", "w", "v", "u">>

LayoutBodies ==
    {[i \in DOMAIN ts |-> FieldNode(LayoutFieldNames[i], ts[i])] :
        ts \in SeqsUpTo(LayoutTypes, MaxFields)}

LayoutE == EnumNode("E", <<EntryA0, EnumEntryNode("b", <<"2", "5", "5">>)>>)

LayoutF == EnumNode("F", <<EnumEntryNode("a", <<"6", "5", "5", "3", "6">>)>>)

LayoutT == SequenceNode("T", <<FieldNode("x", TypeNode("F")), FieldNode("y", U8Type)>>)

LayoutFiles ==
    UNION {{File(<<SequenceNode("S", b), LayoutE, LayoutT, LayoutF>>),
            File(<<LayoutE, LayoutF, LayoutT, SequenceNode("S", b)>>)} :
           b \in LayoutBodies}

\* Field names x and y repeated or not in a sequence, in a oneof of one of its
\* fields and in a oneof nested in that oneof.
ScopeNames == {"x", "y"}

ScopeOneOf(l2, l3) ==
    OneOfNode([j \in DOMAIN l2 |->
        FieldNode(l2[j], IF j = Len(l2)
                         THEN OneOfNode([l \in DOMAIN l3 |-> FieldNode(l3[l], U8Type)])
                         ELSE U8Type)])

ScopeBody(l1, l2, l3, pos) ==
    [i \in DOMAIN l1 |->
        FieldNode(l1[i], IF i = pos THEN ScopeOneOf(l2, l3) ELSE U8Type)]

ScopeT ==
    SequenceNode("T", <<FieldNode("x", OneOfNode(<<FieldNode("x", U8Type),
                                                   FieldNode("y", U8Type)>>))>>)

ScopeFiles ==
    {File(<<SequenceNode("S", ScopeBody(l1, l2, l3, pos)), ScopeT>>) :
        <<l1, l2, l3, pos>> \in
            {q \in SeqsUpTo(ScopeNames, MaxScope) \X SeqsUpTo(ScopeNames, MaxScope)
                   \X SeqsUpTo(ScopeNames, MaxScope) \X (1..MaxScope) :
                q[4] \in {1, Len(q[1])}}}

\* Enums whose values sit on both sides of every width limit, and enums with
\* repeated entry names and values.
WidthLits ==
    {<<"0">>, <<"2", "5", "5">>, <<"2", "5", "6">>, <<"6", "5", "5", "3", "5">>,
     <<"6", "5", "5", "3", "6">>,
     <<"4", "2", "9", "4", "9", "6", "7", "2", "9", "5">>,
     <<"4", "2", "9", "4", "9", "6", "7", "2", "9", "6">>,
     <<"1", "8", "4", "4", "6", "7", "4", "4", "0", "7", "3", "7", "0", "9", "5",
       "5", "1", "6", "1", "5">>,
     <<"1", "8", "4", "4", "6", "7", "4", "4", "0", "7", "3", "7", "0", "9", "5",
       "5", "1", "6", "1", "6">>}

EntryNames == <<"a", "b", "c", "d", "e">>

WidthFiles ==
    {File(<<EnumNode("E", [i \in DOMAIN ls |-> EnumEntryNode(EntryNames[i], ls[i])])>>) :
        ls \in SeqsUpTo(WidthLits, MaxEntries)}

DupEntries ==
    {EnumEntryNode(n, l) : n \in {"a", "b"}, l \in {<<"0">>, <<"0", "0">>, <<"1">>}}

DupFiles ==
    {File(<<EnumNode("F", <<EntryA0>>), EnumNode("E", es)>>) :
        es \in SeqsUpTo(DupEntries, MaxEntries)}

\* A first declaration that fails in the resolution loop in each way (or does
\* not), before a second declaration that fails in the name collection in each
\* way (or does not).
PhaseFirsts ==
    {SequenceNode("S", <<FieldNode("x", U8Type), FieldNode("x", U8Type)>>),
     SequenceNode("S", <<FieldNode("x", ArrayNode(TypeNode("Q")))>>),
     SequenceNode("S", <<FieldNode("x", U8Type)>>),
     EnumNode("S", <<EnumEntryNode("a", <<"1", "_", "0">>)>>),
     EnumNode("S", <<EntryA0, EnumEntryNode("a", <<"1">>)>>),
     EnumNode("S", <<EntryA0, EnumEntryNode("b", <<"0">>)>>),
     EnumNode("S", <<EntryA0>>)}

PhaseSeconds ==
    {SequenceNode(n, <<>>) : n \in {"S", "i64", "T"}}
    \cup {EnumNode(n, <<>>) : n \in {"S", "i64", "T"}}

PhaseFiles == {File(<<d1, d2>>) : d1 \in PhaseFirsts, d2 \in PhaseSeconds}

\* Fields of every kind of type, resolvable or not, in a file that may declare
\* a sequence or an enum under the name of the string type.
ResolveTypes ==
    {TypeNode("string"), TypeNode("T"), TypeNode("E"), TypeNode("f64"),
     TypeNode("Q"), ArrayNode(ArrayNode(TypeNode("Q"))),
     ArrayNode(TypeNode("string")),
     OneOfNode(<<FieldNode("x", U8Type),
                 FieldNode("y", OneOfNode(<<FieldNode("x", ArrayNode(TypeNode("Q")))>>))>>)}

ResolveDecls ==
    {SequenceNode("string", <<>>), EnumNode("string", <<>>), SequenceNode("T", <<>>)}

ResolveFiles ==
    {File(<<SequenceNode("S", <<FieldNode("x", t1), FieldNode("y", t2)>>), d, LayoutE>>) :
        t1 \in ResolveTypes, t2 \in ResolveTypes, d \in ResolveDecls}

Files ==
    NameFiles \cup LayoutFiles \cup ScopeFiles \cup WidthFiles \cup DupFiles
    \cup PhaseFiles \cup ResolveFiles

(***************************************************************************)
(* The lexer (src/tokenizer).                                              *)
(***************************************************************************)
Digits == Range(DigitChars)

Letters ==
    {"a", "b", "c", "d", "e", "f", "g", "h", "i", "j", "k", "l", "m", "n", "o",
     "p", "q", "r", "s", "t", "u", "v", "w", "x", "y", "z",
     "A", "B", "C", "D", "E", "F", "G", "H", "I", "J", "K", "L", "M", "N", "O",
     "P", "Q", "R", "S", "T", "U", "V", "W", "X", "Y", "Z"}

\* [0-9_]
NumChars == Digits \cup {"_"}

\* [a-zA-Z0-9_]
IdentChars == Letters \cup Digits \cup {"_"}

\* \s
Spaces == {" ", "\t", "\n", "\r", "\f"}

\* (\r|\n|\r\n)
LineEnds == {"\r", "\n"}

RECURSIVE RunLen(_, _, _, _)
\* The number of characters of s from index `from` on that are in the set
\* (inside) or not in the set (~inside), up to the first that is not so.
RunLen(s, from, set, inside) ==
    IF from <= Len(s) /\ ((s[from] \in set) <=> inside)
    THEN 1 + RunLen(s, from + 1, set, inside)
    ELSE 0

HasPrefix(s, lit) == Len(s) >= Len(lit) /\ SubSeq(s, 1, Len(lit)) = lit

Rule(re, lit, token) == [re |-> re, lit |-> lit, token |-> token]

\* The ordered list of patterns and token generators.
SPEC ==
    << Rule("space", <<>>, "None"),
       Rule("comment", <<>>, "None"),
       Rule("lit", <<"s", "e", "q", "u", "e", "n", "c", "e">>, "Sequence"),
       Rule("lit", <<"o", "n", "e", "o", "f">>, "Oneof"),
       Rule("lit", <<"e", "n", "u", "m">>, "Enum"),
       Rule("lit", <<"{">>, "OpenBrace"),
       Rule("lit", <<"}">>, "CloseBrace"),
       Rule("lit", <<"[">>, "OpenBracket"),
       Rule("lit", <<"]">>, "CloseBracket"),
       Rule("lit", <<":">>, "Colon"),
       Rule("lit", <<";">>, "Semicolon"),
       Rule("lit", <<"=">>, "Equals"),
       Rule("number", <<>>, "Number"),
       Rule("ident", <<>>, "Identifier") >>

\* The end of the match of a rule's pattern at the start of s; 0 if it does not
\* match (no pattern matches the empty text).
MatchLen(rule, s) ==
    CASE rule.re = "space" -> RunLen(s, 1, Spaces, TRUE)
      [] rule.re = "comment" ->
            IF HasPrefix(s, <<"/", "/">>)
            THEN LET end == 3 + RunLen(s, 3, LineEnds, FALSE)
                 IN  IF end <= Len(s) THEN end ELSE 0
            ELSE 0
      [] rule.re = "lit" -> IF HasPrefix(s, rule.lit) THEN Len(rule.lit) ELSE 0
      [] rule.re = "number" ->
            LET n1 == RunLen(s, 1, NumChars, TRUE)
                n2 == RunLen(s, n1 + 2, NumChars, TRUE)
            IN  IF n1 > 0 /\ n1 + 1 <= Len(s) /\ s[n1 + 1] = "." /\ n2 > 0
                THEN n1 + 1 + n2
                ELSE n1
      [] rule.re = "ident" ->
            IF s # <<>> /\ s[1] \in Letters \cup {"_"}
            THEN 1 + RunLen(s, 2, IdentChars, TRUE)
            ELSE 0

RECURSIVE FirstRuleFrom(_, _)
\* The loop over SPEC from rule i on: the first rule whose pattern matches at
\* the start of s; 0 if none does.
FirstRuleFrom(s, i) ==
    IF i > Len(SPEC) THEN 0
    ELSE IF MatchLen(SPEC[i], s) > 0 THEN i
    ELSE FirstRuleFrom(s, i + 1)

FirstRule(s) == FirstRuleFrom(s, 1)

NoToken == [type |-> "None"]

NoLexErr == [line |-> 0, col |-> 0, width |-> 0]

\* A token: its type with the text it carries, and its location.
Token(rule, text, line, col) ==
    [type |-> rule.token,
     text |-> IF rule.token \in {"Number", "Identifier"} THEN text ELSE <<>>,
     line |-> line, col |-> col]

\* The tokenizer as Tokenizer::new sets it up, before its call of advance.
NewTokenizer == [cursor |-> 0, next_token |-> NoToken, line_num |-> 0, col_num |-> 0]

\* CountText with a newline counted as a column.
CountTextOneLine(st, text) == [st EXCEPT !.col_num = @ + Len(text)]

\* The line and column after the text is counted.
CountText(st, text) ==
    LET nl == {i \in DOMAIN text : text[i] = "\n"}
        last == CHOOSE i \in nl : \A j \in nl : j <= i
    IN  IF nl = {}
        THEN [st EXCEPT !.col_num = @ + Len(text)]
        ELSE [st EXCEPT !.line_num = @ + Cardinality(nl),
                        !.col_num = Len(text) - last]

RECURSIVE Advance(_, _, _)
\* The body of advance's loop for the rule that matched the text: the token
\* is generated, the cursor and the location move on, and a rule without a
\* token makes advance call itself.
Matched(src, st, rule, text) ==
    LET counted ==
            CountText([st EXCEPT
                          !.cursor = @ + Len(text),
                          !.next_token =
                              IF rule.token # "None"
                              THEN Token(rule, text, st.line_num, st.col_num)
                              ELSE @],
                      text)
    IN  IF rule.token = "None"
        THEN Advance(src, counted, FALSE)
        ELSE [ok |-> TRUE, st |-> counted, err |-> NoLexErr]

\* AdvanceSliced with next_token left as it is when no rule matches.
AdvanceSlicedKeepsToken(src, st, sliced, i) ==
    IF i = 0
    THEN [ok |-> FALSE, st |-> st,
          err |-> [line |-> st.line_num, col |-> st.col_num, width |-> 1]]
    ELSE Matched(src, st, SPEC[i], SubSeq(sliced, 1, MatchLen(SPEC[i], sliced)))

\* advance on the rest of the source, with i the first rule that matches it.
AdvanceSliced(src, st, sliced, i) ==
    IF i = 0
    THEN [ok |-> FALSE, st |-> [st EXCEPT !.next_token = NoToken],
          err |-> [line |-> st.line_num, col |-> st.col_num, width |-> 1]]
    ELSE Matched(src, st, SPEC[i], SubSeq(sliced, 1, MatchLen(SPEC[i], sliced)))

\* Advance with next_token left as it is at the end of the source.
AdvanceKeepsAtEnd(src, st, first) ==
    IF st.next_token = NoToken /\ ~first
    THEN [ok |-> TRUE, st |-> st, err |-> NoLexErr]
    ELSE IF st.cursor >= Len(src)
    THEN [ok |-> TRUE, st |-> st, err |-> NoLexErr]
    ELSE AdvanceSliced(src, st, SubSeq(src, st.cursor + 1, Len(src)),
                       FirstRule(SubSeq(src, st.cursor + 1, Len(src))))

\* Tokenizer::advance. Returns the tokenizer after the call and the error, if
\* the call returns one.
Advance(src, st, first) ==
    IF st.next_token = NoToken /\ ~first
    THEN [ok |-> TRUE, st |-> st, err |-> NoLexErr]
    ELSE IF st.cursor >= Len(src)
    THEN [ok |-> TRUE, st |-> [st EXCEPT !.next_token = NoToken], err |-> NoLexErr]
    ELSE AdvanceSliced(src, st, SubSeq(src, st.cursor + 1, Len(src)),
                       FirstRule(SubSeq(src, st.cursor + 1, Len(src))))

\* Tokenizer::pop. Returns also the token popped, if no error is returned.
Pop(src, st) ==
    LET r == Advance(src, st, FALSE)
    IN  [ok |-> r.ok, st |-> r.st, err |-> r.err,
         token |-> IF r.ok THEN st.next_token ELSE NoToken]

ErrorItem(e) == [type |-> "Error", line |-> e.line, col |-> e.col, width |-> e.width]

RECURSIVE Drain(_, _, _)
\* The items next() yields from the tokenizer on, up to the first None.
Drain(src, st, items) ==
    LET r == Pop(src, st)
    IN  IF ~r.ok THEN Drain(src, r.st, Append(items, ErrorItem(r.err)))
        ELSE IF r.token = NoToken THEN items
        ELSE Drain(src, r.st, Append(items, r.token))

\* The items a tokenizer constructed on the source yields, if it is constructed.
LexItems(src) ==
    LET r == Advance(src, NewTokenizer, TRUE)
    IN  IF r.ok THEN Drain(src, r.st, <<>>) ELSE <<>>

\* The tokens among the items, each as its kind and carried text.
TokenViews(items) ==
    LET ts == SelectSeq(items, LAMBDA t : t.type # "Error")
    IN  [i \in DOMAIN ts |-> <<ts[i].type, ts[i].text>>]

(***************************************************************************)
(* The syntax builder (src/ast): recursive descent over the lexer's tokens. *)
(* The state of a builder is its tokenizer and its current token; every    *)
(* rule returns the state it leaves with its node or its error.            *)
(***************************************************************************)
NoResult == [ok |-> FALSE, err |-> [kind |-> "none"]]

UnexpectedToken(token) == [kind |-> "UnexpectedToken", token |-> token]

UnexpectedEof == [kind |-> "UnexpectedEof"]

LexFailure(e) ==
    [kind |-> "TokenizerError", line |-> e.line, col |-> e.col, width |-> e.width]

Parsed(ps, val) == [ok |-> TRUE, ps |-> ps, val |-> val]

Failed(ps, e) == [ok |-> FALSE, ps |-> ps, err |-> e]

\* The `?` operator: the rest of the rule runs on the result unless it is an
\* error, which is returned.
Try(r, Rest(_)) == IF r.ok THEN Rest(r) ELSE r

\* AstBuilder::advance on the result r of tokens.next(); the value is the
\* token that was current.
BuilderAdvanceWith(ps, r) ==
    IF r.ok THEN Parsed([tok |-> r.st, cur |-> r.token], ps.cur)
    ELSE Failed([ps EXCEPT !.tok = r.st], LexFailure(r.err))

BuilderAdvance(src, ps) == BuilderAdvanceWith(ps, Pop(src, ps.tok))

\* AstBuilder::expect; the value is the token consumed.
Expect(src, ps, token_type) ==
    IF ps.cur = NoToken THEN Failed(ps, UnexpectedEof)
    ELSE IF ps.cur.type # token_type THEN Failed(ps, UnexpectedToken(ps.cur))
    ELSE BuilderAdvance(src, ps)

\* AstBuilder::expect_identifier and expect_identifier_with_token.
ExpectIdentifier(src, ps) == Expect(src, ps, "Identifier")

\* AstBuilder::expect_number
ExpectNumber(src, ps) == Expect(src, ps, "Number")

I32Max == 2147483647

RECURSIVE ParseI32Digits(_, _, _)
ParseI32Digits(text, i, acc) ==
    IF i > Len(text) THEN Ok(acc)
    ELSE IF ~IsDigit(text[i]) THEN Err("invalid_digit", <<>>)
    ELSE IF acc > (I32Max - DigitVal(text[i])) \div 10 THEN Err("overflow", <<>>)
    ELSE ParseI32Digits(text, i + 1, acc * 10 + DigitVal(text[i]))

\* value.parse::<i32>() on the text of a number token (which has no sign).
ParseI32(text) ==
    IF text = <<>> THEN Err("empty", <<>>) ELSE ParseI32Digits(text, 1, 0)

RECURSIVE Decimal(_)
\* The decimal numeral of a natural number (the text of an i32 that has no
\* sign).
Decimal(n) ==
    IF n < 10 THEN <<DigitChars[n + 1]>>
    ELSE Append(Decimal(n \div 10), DigitChars[(n % 10) + 1])

RECURSIVE BuildType(_, _)
RECURSIVE BuildFields(_, _, _)

\* BuildField with the node of the field's type returned in place of the
\* field's node.
BuildFieldBare(src, ps) ==
    Try(ExpectIdentifier(src, ps), LAMBDA name :
    Try(Expect(src, name.ps, "Colon"), LAMBDA colon :
        BuildType(src, colon.ps)))

\* AstBuilder::parse_field
BuildField(src, ps) ==
    Try(ExpectIdentifier(src, ps), LAMBDA name :
    Try(Expect(src, name.ps, "Colon"), LAMBDA colon :
    Try(BuildType(src, colon.ps), LAMBDA field_type :
        Parsed(field_type.ps, FieldNode(name.val.text, field_type.val)))))

\* The loop of parse_sequence and of parse_oneof over the fields.
BuildFields(src, ps, fields) ==
    IF ps.cur = NoToken THEN Failed(ps, UnexpectedEof)
    ELSE IF ps.cur.type = "Identifier"
    THEN Try(BuildField(src, ps), LAMBDA field :
         Try(Expect(src, field.ps, "Semicolon"), LAMBDA semi :
             BuildFields(src, semi.ps, Append(fields, field.val))))
    ELSE IF ps.cur.type = "CloseBrace" THEN Parsed(ps, fields)
    ELSE Failed(ps, UnexpectedToken(ps.cur))

\* AstBuilder::parse_array
BuildArray(src, ps) ==
    Try(Expect(src, ps, "OpenBracket"), LAMBDA tag :
    Try(BuildType(src, tag.ps), LAMBDA array_type :
    Try(Expect(src, array_type.ps, "CloseBracket"), LAMBDA close :
        Parsed(close.ps, ArrayNode(array_type.val)))))

\* AstBuilder::parse_oneof
BuildOneOf(src, ps) ==
    Try(Expect(src, ps, "Oneof"), LAMBDA tag :
    Try(Expect(src, tag.ps, "OpenBrace"), LAMBDA open :
    Try(BuildFields(src, open.ps, <<>>), LAMBDA fields :
    Try(Expect(src, fields.ps, "CloseBrace"), LAMBDA close :
        Parsed(close.ps, OneOfNode(fields.val))))))

\* AstBuilder::parse_type
BuildType(src, ps) ==
    IF ps.cur = NoToken THEN Failed(ps, UnexpectedEof)
    ELSE IF ps.cur.type = "Identifier"
    THEN Try(ExpectIdentifier(src, ps), LAMBDA name :
             Parsed(name.ps, TypeNode(name.val.text)))
    ELSE IF ps.cur.type = "OpenBracket" THEN BuildArray(src, ps)
    ELSE IF ps.cur.type = "Oneof" THEN BuildOneOf(src, ps)
    ELSE Failed(ps, UnexpectedToken(ps.cur))

\* AstBuilder::parse_sequence
BuildSequence(src, ps) ==
    Try(Expect(src, ps, "Sequence"), LAMBDA tag :
    Try(ExpectIdentifier(src, tag.ps), LAMBDA name :
    Try(Expect(src, name.ps, "OpenBrace"), LAMBDA open :
    Try(BuildFields(src, open.ps, <<>>), LAMBDA fields :
    Try(Expect(src, fields.ps, "CloseBrace"), LAMBDA close :
        Parsed(close.ps, SequenceNode(name.val.text, fields.val)))))))

\* The entry of parse_enum_entry once its three tokens are consumed: the text
\* of the number is parsed, and the error for a text that does not parse
\* carries a number token without a location.
EnumEntryOf(ps, name, value, value_num) ==
    IF value_num.ok THEN Parsed(ps, EnumEntryNode(name, value_num.val))
    ELSE Failed(ps, UnexpectedToken([type |-> "Number", text |-> value,
                                     line |-> 0, col |-> 0]))

\* AstBuilder::parse_enum_entry
BuildEnumEntry(src, ps) ==
    Try(ExpectIdentifier(src, ps), LAMBDA name :
    Try(Expect(src, name.ps, "Equals"), LAMBDA equals :
    Try(ExpectNumber(src, equals.ps), LAMBDA value :
        EnumEntryOf(value.ps, name.val.text, value.val.text,
                    ParseI32(value.val.text)))))

RECURSIVE BuildEntries(_, _, _)
\* The loop of parse_enum over the entries.
BuildEntries(src, ps, entries) ==
    IF ps.cur = NoToken THEN Failed(ps, UnexpectedEof)
    ELSE IF ps.cur.type = "Identifier"
    THEN Try(BuildEnumEntry(src, ps), LAMBDA entry :
         Try(Expect(src, entry.ps, "Semicolon"), LAMBDA semi :
             BuildEntries(src, semi.ps, Append(entries, entry.val))))
    ELSE IF ps.cur.type = "CloseBrace" THEN Parsed(ps, entries)
    ELSE Failed(ps, UnexpectedToken(ps.cur))

\* AstBuilder::parse_enum
BuildEnum(src, ps) ==
    Try(Expect(src, ps, "Enum"), LAMBDA tag :
    Try(ExpectIdentifier(src, tag.ps), LAMBDA name :
    Try(Expect(src, name.ps, "OpenBrace"), LAMBDA open :
    Try(BuildEntries(src, open.ps, <<>>), LAMBDA entries :
    Try(Expect(src, entries.ps, "CloseBrace"), LAMBDA close :
        Parsed(close.ps, EnumNode(name.val.text, entries.val)))))))

RECURSIVE BuildFile(_, _, _)
\* AstBuilder::parse_file, with the declarations parsed so far.
BuildFile(src, ps, file) ==
    IF ps.cur = NoToken THEN Parsed(ps, File(file))
    ELSE IF ps.cur.type = "Sequence"
    THEN Try(BuildSequence(src, ps), LAMBDA decl :
             BuildFile(src, decl.ps, Append(file, decl.val)))
    ELSE IF ps.cur.type = "Enum"
    THEN Try(BuildEnum(src, ps), LAMBDA decl :
             BuildFile(src, decl.ps, Append(file, decl.val)))
    ELSE Failed(ps, UnexpectedToken(ps.cur))

(***************************************************************************)
(* check_reserved (simplebuffers-compiler/src/reserved_identifiers.rs).    *)
(* Names here are texts, as the case conversion reads their characters.    *)
(***************************************************************************)
LowerChars ==
    <<"a", "b", "c", "d", "e", "f", "g", "h", "i", "j", "k", "l", "m", "n", "o",
      "p", "q", "r", "s", "t", "u", "v", "w", "x", "y", "z">>

UpperChars ==
    <<"A", "B", "C", "D", "E", "F", "G", "H", "I", "J", "K", "L", "M", "N", "O",
      "P", "Q", "R", "S", "T", "U", "V", "W", "X", "Y", "Z">>

IsLower(c) == \E i \in DOMAIN LowerChars : LowerChars[i] = c

IsUpper(c) == \E i \in DOMAIN UpperChars : UpperChars[i] = c

ToLower(c) ==
    IF IsUpper(c) THEN LowerChars[CHOOSE i \in DOMAIN UpperChars : UpperChars[i] = c]
    ELSE c

\* The characters that separate words and are dropped.
Delimiters == {"_", "-", " "}

\* A word ends between s[i] and s[i + 1]: lower-upper, letter-digit,
\* digit-letter, or before the last capital of an acronym.
WordBreak(s, i) ==
    \/ IsLower(s[i]) /\ IsUpper(s[i + 1])
    \/ IsUpper(s[i]) /\ IsDigit(s[i + 1])
    \/ IsDigit(s[i]) /\ IsUpper(s[i + 1])
    \/ IsDigit(s[i]) /\ IsLower(s[i + 1])
    \/ IsLower(s[i]) /\ IsDigit(s[i + 1])
    \/ IsUpper(s[i]) /\ IsUpper(s[i + 1]) /\ i + 2 <= Len(s) /\ IsLower(s[i + 2])

RECURSIVE SnakeFrom(_, _, _, _)
SnakeFrom(s, i, out, sep) ==
    IF i > Len(s) THEN out
    ELSE IF s[i] \in Delimiters THEN SnakeFrom(s, i + 1, out, TRUE)
    ELSE IF out # <<>> /\ (sep \/ (i > 1 /\ WordBreak(s, i - 1)))
    THEN SnakeFrom(s, i + 1, out \o <<"_", ToLower(s[i])>>, FALSE)
    ELSE SnakeFrom(s, i + 1, Append(out, ToLower(s[i])), FALSE)

\* name.to_case(Case::Snake): the words in lower case, joined by underscores.
SnakeCase(s) == SnakeFrom(s, 1, <<>>, FALSE)

ReserveOk == [ok |-> TRUE]

ReserveCheckError(target, name, matched) ==
    [ok |-> FALSE, target |-> target, name_stack |-> <<>>, name |-> name,
     matched |-> matched]

\* Bubble with the new name put in front of the stack.
BubbleFront(r, new_name) ==
    IF r.ok THEN r ELSE [r EXCEPT !.name_stack = <<new_name>> \o @]

\* ReserveCheckError::bubble on an error; a success is passed on.
Bubble(r, new_name) ==
    IF r.ok THEN r ELSE [r EXCEPT !.name_stack = Append(@, new_name)]

RECURSIVE JoinRev(_)
\* name_stack.iter().rev().join("::")
JoinRev(name_stack) ==
    IF Len(name_stack) = 1 THEN name_stack[1]
    ELSE name_stack[Len(name_stack)] \o <<":", ":">>
         \o JoinRev(SubSeq(name_stack, 1, Len(name_stack) - 1))

\* Display for ReserveCheckError, without the colours: the target, the
\* qualified name and the reserved word of the message.
DisplayError(e) ==
    [target |-> e.target,
     name |-> IF e.name_stack = <<>> THEN e.name
              ELSE JoinRev(e.name_stack) \o <<":", ":">> \o e.name,
     matched |-> e.matched]

\* find_match: the index of the first reserved word that matches, 0 if none.
FindMatch(name, reserved_words) ==
    IF \E i \in DOMAIN reserved_words : SnakeCase(name) = SnakeCase(reserved_words[i])
    THEN CHOOSE i \in DOMAIN reserved_words :
            /\ SnakeCase(name) = SnakeCase(reserved_words[i])
            /\ \A j \in 1..(i - 1) : SnakeCase(name) # SnakeCase(reserved_words[j])
    ELSE 0

\* The error for a name that matches the reserved word m, if m is not 0.
MatchError(target, name, reserved_words, m) ==
    IF m = 0 THEN ReserveOk ELSE ReserveCheckError(target, name, reserved_words[m])

RECURSIVE CheckField(_, _)
RECURSIVE CheckFields(_, _, _, _)
\* check_field
CheckField(field, reserved_words) ==
    IF FindMatch(field.name, reserved_words) # 0
    THEN MatchError("Field", field.name, reserved_words,
                    FindMatch(field.name, reserved_words))
    ELSE IF field.ty.k = "OneOf"
    THEN CheckFields(field.ty.fields, 1, reserved_words, field.name)
    ELSE ReserveOk

\* The loop over the fields of a sequence or of a oneof, from field i on;
\* an error is bubbled with the name of the parent.
CheckFields(fields, i, reserved_words, parent) ==
    IF i > Len(fields) THEN ReserveOk
    ELSE IF ~CheckField(fields[i], reserved_words).ok
    THEN Bubble(CheckField(fields[i], reserved_words), parent)
    ELSE CheckFields(fields, i + 1, reserved_words, parent)

RECURSIVE CheckVariants(_, _, _, _)
\* The loop over the variants of an enum.
CheckVariants(variants_, i, reserved_words, parent) ==
    IF i > Len(variants_) THEN ReserveOk
    ELSE IF FindMatch(variants_[i].name, reserved_words) # 0
    THEN Bubble(MatchError("EnumVar", variants_[i].name, reserved_words,
                           FindMatch(variants_[i].name, reserved_words)), parent)
    ELSE CheckVariants(variants_, i + 1, reserved_words, parent)

RECURSIVE CheckEnums(_, _, _)
\* Check all enums.
CheckEnums(enums, i, reserved_words) ==
    IF i > Len(enums) THEN ReserveOk
    ELSE IF FindMatch(enums[i].name, reserved_words) # 0
    THEN MatchError("Enum", enums[i].name, reserved_words,
                    FindMatch(enums[i].name, reserved_words))
    ELSE IF ~CheckVariants(enums[i].variants, 1, reserved_words, enums[i].name).ok
    THEN CheckVariants(enums[i].variants, 1, reserved_words, enums[i].name)
    ELSE CheckEnums(enums, i + 1, reserved_words)

RECURSIVE CheckSequences(_, _, _)
\* Check all sequences.
CheckSequences(sequences, i, reserved_words) ==
    IF i > Len(sequences) THEN ReserveOk
    ELSE IF FindMatch(sequences[i].name, reserved_words) # 0
    THEN MatchError("Sequence", sequences[i].name, reserved_words,
                    FindMatch(sequences[i].name, reserved_words))
    ELSE IF ~CheckFields(sequences[i].fields, 1, reserved_words, sequences[i].name).ok
    THEN CheckFields(sequences[i].fields, 1, reserved_words, sequences[i].name)
    ELSE CheckSequences(sequences, i + 1, reserved_words)

\* Check if any reserved identifiers appear in a schema.
CheckReserved(sch, reserved_words) ==
    IF ~CheckEnums(sch.enums, 1, reserved_words).ok
    THEN CheckEnums(sch.enums, 1, reserved_words)
    ELSE CheckSequences(sch.sequences, 1, reserved_words)

(***************************************************************************)
(* The source texts the lexer is run on: up to MaxPieces pieces.           *)
(***************************************************************************)
MaxPieces == 3

MaxNones == 2

Pieces ==
    {<<"e", "n", "u", "m">>, <<"a">>, <<"_">>, <<"1">>, <<".">>, <<":">>,
     <<" ">>, <<"\n">>, <<"\r">>, <<"/", "/">>, <<"$">>}

RECURSIVE Concat(_)
Concat(ps) == IF ps = <<>> THEN <<>> ELSE Head(ps) \o Concat(Tail(ps))

Sources == {Concat(ps) : ps \in SeqsUpTo(Pieces, MaxPieces)}

(***************************************************************************)
(* The source texts the syntax builder is run on: every prefix of a few    *)
(* files, cut between two tokens, followed by up to MaxExtra more tokens.  *)
(***************************************************************************)
MaxExtra == 1

WSequence == SPEC[3].lit

WOneof == SPEC[4].lit

WEnum == SPEC[5].lit

\* sequence S { x : [ u ] ; y : oneof { z : u ; } ; }
\* enum E { a = 1 ; } sequence T { }
BaseFiles ==
    { <<WSequence, <<"S">>, <<"{">>, <<"x">>, <<":">>, <<"[">>, <<"u">>, <<"]">>,
        <<";">>, <<"y">>, <<":">>, WOneof, <<"{">>, <<"z">>, <<":">>, <<"u">>,
        <<";">>, <<"}">>, <<";">>, <<"}">> >>,
      <<WEnum, <<"E">>, <<"{">>, <<"a">>, <<"=">>, <<"1">>, <<";">>, <<"}">>,
        WSequence, <<"T">>, <<"{">>, <<"}">> >> }

\* Texts the number rule of the lexer matches as a whole.
NumberLits ==
    {<<"0">>, <<"0", "0", "7">>, <<"1", "_", "0">>, <<"1", ".", "5">>, <<"_">>,
     <<"2", "1", "4", "7", "4", "8", "3", "6", "4", "7">>,
     <<"2", "1", "4", "7", "4", "8", "3", "6", "4", "8">>,
     <<"4", "2", "9", "4", "9", "6", "7", "2", "9", "6">>,
     <<"1", "8", "4", "4", "6", "7", "4", "4", "0", "7", "3", "7", "0", "9", "5",
       "5", "1", "6", "1", "5">>,
     <<"1", "8", "4", "4", "6", "7", "4", "4", "0", "7", "3", "7", "0", "9", "5",
       "5", "1", "6", "1", "6">>}

\* enum E { a = <literal> ; }
LitFile(lit) ==
    <<WEnum, <<"E">>, <<"{">>, <<"a">>, <<"=">>, lit, <<";">>, <<"}">> >>

LitFiles == {LitFile(lit) : lit \in NumberLits}

\* One word of every kind of token.
ExtraWords ==
    {WSequence, WOneof, WEnum, <<"{">>, <<"}">>, <<"[">>, <<"]">>, <<":">>,
     <<";">>, <<"=">>, <<"1">>, <<"x">>}

RECURSIVE Join(_)
\* The words separated by single spaces.
Join(words) ==
    IF words = <<>> THEN <<>>
    ELSE IF Len(words) = 1 THEN words[1]
    ELSE words[1] \o <<" ">> \o Join(Tail(words))

ParseWords ==
    {SubSeq(b, 1, k) \o extra :
        <<b, k, extra>> \in
            {q \in (BaseFiles \cup LitFiles) \X (0..20) \X SeqsUpTo(ExtraWords, MaxExtra) :
                q[2] <= Len(q[1])}}

ParseSources == {Join(ws) : ws \in ParseWords}

(***************************************************************************)
(* The schemas and reserved words check_reserved is run on: one sequence   *)
(* and one enum, with a name that may match a reserved word in every       *)
(* place a name is declared.                                               *)
(***************************************************************************)
MaxReserved == 2

NClass == <<"c", "l", "a", "s", "s">>

NMyId == <<"m", "y", "I", "d">>

ReservedWords == {NClass, <<"m", "y", "_", "i", "d">>}

ReservedLists == SeqsUpTo(ReservedWords, MaxReserved)

U8Field(name, index) == Field(name, [k |-> "Primitive", p |-> "U8"], index)

OneOfOf(fields) == [k |-> "OneOf", fields |-> fields]

ArrayOf(elem) == [k |-> "Array", elem |-> elem]

\* sequence <s> { <f>: u8; o: oneof { <g>: u8; p: oneof { <h>: u8; };
\*                q: [oneof { <k>: u8; }]; }; r: [oneof { <l>: u8; }];
\*                <t>: u8; }
\* enum <e> { <v> = 0; }
ReservedSchema(s, f, g, h, k, l, e, v, t) ==
    [sequences |->
        << [name |-> s,
            fields |->
                << U8Field(f, 0),
                   Field(<<"o">>,
                         OneOfOf(<< U8Field(g, 0),
                                    Field(<<"p">>, OneOfOf(<<U8Field(h, 0)>>), 1),
                                    Field(<<"q">>, ArrayOf(OneOfOf(<<U8Field(k, 0)>>)), 2) >>),
                         1),
                   Field(<<"r">>, ArrayOf(OneOfOf(<<U8Field(l, 0)>>)), 4),
                   U8Field(t, 8) >>] >>,
     enums |->
        << [name |-> e, size |-> 1,
            variants |-> <<[name |-> v, value |-> <<0, 0, 0, 0>>]>>] >>]

ReservedSchemas ==
    {ReservedSchema(q[1], q[2], q[3], q[4], q[5], q[6], q[7], q[8], q[9]) :
        q \in {<<"S">>, <<"C", "l", "a", "s", "s">>} \X {<<"x">>, NClass}
              \X {<<"x">>, NMyId} \X {<<"x">>, NClass} \X {<<"x">>, NClass}
              \X {<<"x">>, NMyId} \X {<<"E">>, <<"M", "Y", "_", "I", "D">>}
              \X {<<"a">>, <<"m", "y", "-", "i", "d">>} \X {<<"t">>, NMyId}}

NoCheck ==
    [ok |-> FALSE, target |-> "none", name_stack |-> <<>>, name |-> <<>>,
     matched |-> <<>>]

MainIdle ==
    /\ schema = EmptySchema
    /\ reserved = <<>>
    /\ checked = NoCheck
    /\ main_pc = "idle"
    /\ generated = 0
    /\ exit_code = "none"
    /\ main_err = "none"
    /\ done_stages = <<>>

LexerIdle ==
    /\ source = <<>>
    /\ lex_pc = "idle"
    /\ tok = NewTokenizer
    /\ lex_err = NoLexErr
    /\ yielded = <<>>
    /\ nones = 0
    /\ builder = "none"
    /\ current_token = NoToken
    /\ ast = NoResult

\* No call of expect has returned.
NoCall == [kind |-> "None", ret |-> NoResult]

ExpectIdle == expected = NoCall

WalkIdle ==
    /\ walk_from = <<>>
    /\ walked = <<>>
    /\ ExpectIdle

CompilerIdle ==
    /\ root = File(<<>>)
    /\ pc = "idle"
    /\ stack = <<>>
    /\ struct_map = EmptyMap
    /\ result = EmptySchema
    /\ top_i = 0
    /\ entry_i = 0
    /\ variants = <<>>
    /\ enum_size = 0
    /\ inj_e = 0
    /\ inj_s = 0
    /\ err = NoErr
    /\ WalkIdle

(***************************************************************************)
(* parse_ast as a state machine.                                           *)
(***************************************************************************)
Init ==
    /\ root \in Files
    /\ pc = "collect"
    /\ stack = << <<>> >>
    /\ struct_map = EmptyMap
    /\ result = EmptySchema
    /\ top_i = 0
    /\ entry_i = 0
    /\ variants = <<>>
    /\ enum_size = 0
    /\ inj_e = 0
    /\ inj_s = 0
    /\ err = NoErr
    /\ WalkIdle
    /\ LexerIdle
    /\ MainIdle

Fail(e) ==
    /\ pc' = "error"
    /\ err' = e

\* One iteration of the name-collection loop over root.iter_depth_first().
CollectStep ==
    /\ UNCHANGED <<lvars, mvars, wvars, xvars>>
    /\ pc = "collect"
    /\ stack # <<>>
    /\ LET path == stack[Len(stack)]
           node == NodeAt(root, path)
       IN  /\ stack' = DepthFirstNext(root, stack)
           /\ IF node.k \in {"Sequence", "Enum"}
              THEN LET v == VerifyStructName(node.name, struct_map)
                   IN  IF v # "ok"
                       THEN /\ Fail([kind |-> v, at |-> path])
                            /\ UNCHANGED struct_map
                       ELSE /\ struct_map' = MapInsert(struct_map, node.name, node.k)
                            /\ UNCHANGED <<pc, err>>
              ELSE UNCHANGED <<pc, err, struct_map>>
    /\ UNCHANGED <<root, result, top_i, entry_i, variants, enum_size, inj_e, inj_s>>

\* The traversal is exhausted: construct the result and enter the loop over
\* the file's contents.
CollectDone ==
    /\ UNCHANGED <<lvars, mvars, wvars, xvars>>
    /\ pc = "collect"
    /\ stack = <<>>
    /\ pc' = "resolve"
    /\ top_i' = 1
    /\ result' = EmptySchema
    /\ UNCHANGED <<root, stack, struct_map, entry_i, variants, enum_size, inj_e,
                   inj_s, err>>

\* A top-level sequence: parse_sequence and push.
ResolveSequence ==
    /\ UNCHANGED <<lvars, mvars, wvars, xvars>>
    /\ pc = "resolve"
    /\ top_i <= Len(root.children)
    /\ root.children[top_i].k = "Sequence"
    /\ LET r == ResolveTopSequence(root, top_i, struct_map)
       IN  IF r.ok
           THEN /\ result' = [result EXCEPT !.sequences = Append(@, r.val)]
                /\ top_i' = top_i + 1
                /\ UNCHANGED <<pc, err>>
           ELSE /\ Fail(r.err)
                /\ UNCHANGED <<result, top_i>>
    /\ UNCHANGED <<root, stack, struct_map, entry_i, variants, enum_size, inj_e, inj_s>>

\* A top-level enum: parse_enum is entered.
EnumBegin ==
    /\ UNCHANGED <<lvars, mvars, wvars, xvars>>
    /\ pc = "resolve"
    /\ top_i <= Len(root.children)
    /\ root.children[top_i].k = "Enum"
    /\ pc' = "enum"
    /\ variants' = <<>>
    /\ enum_size' = 1
    /\ entry_i' = 1
    /\ UNCHANGED <<root, stack, struct_map, result, top_i, inj_e, inj_s, err>>

\* One iteration of parse_enum's loop over the entries.
EnumEntry ==
    /\ UNCHANGED <<lvars, mvars, wvars, xvars>>
    /\ pc = "enum"
    /\ entry_i <= Len(root.children[top_i].entries)
    /\ LET r == EnumEntryStep(variants, enum_size,
                              root.children[top_i].entries[entry_i],
                              <<top_i, entry_i>>)
       IN  IF r.ok
           THEN /\ variants' = r.val.variants
                /\ enum_size' = r.val.size
                /\ entry_i' = entry_i + 1
                /\ UNCHANGED <<pc, err>>
           ELSE /\ Fail(r.err)
                /\ UNCHANGED <<variants, enum_size, entry_i>>
    /\ UNCHANGED <<root, stack, struct_map, result, top_i, inj_e, inj_s>>

\* parse_enum returns the enum, which is pushed.
EnumEnd ==
    /\ UNCHANGED <<lvars, mvars, wvars, xvars>>
    /\ pc = "enum"
    /\ entry_i > Len(root.children[top_i].entries)
    /\ result' = [result EXCEPT !.enums =
           Append(@, [name |-> root.children[top_i].name, size |-> enum_size,
                      variants |-> variants])]
    /\ pc' = "resolve"
    /\ top_i' = top_i + 1
    /\ variants' = <<>>
    /\ enum_size' = 0
    /\ entry_i' = 0
    /\ UNCHANGED <<root, stack, struct_map, inj_e, inj_s, err>>

\* All top-level nodes are parsed: enter the backfill loops.
ResolveDone ==
    /\ UNCHANGED <<lvars, mvars, wvars, xvars>>
    /\ pc = "resolve"
    /\ top_i > Len(root.children)
    /\ pc' = "inject"
    /\ inj_e' = 1
    /\ inj_s' = 1
    /\ UNCHANGED <<root, stack, struct_map, result, top_i, entry_i, variants,
                   enum_size, err>>

\* One iteration of the inner backfill loop: enum inj_e into sequence inj_s.
InjectStep ==
    /\ UNCHANGED <<lvars, mvars, wvars, xvars>>
    /\ pc = "inject"
    /\ inj_e <= Len(result.enums)
    /\ inj_s <= Len(result.sequences)
    /\ result' = [result EXCEPT !.sequences[inj_s].fields =
           InjectEnumSizeInto(result.enums[inj_e].name, result.enums[inj_e].size, @)]
    /\ IF inj_s < Len(result.sequences)
       THEN inj_s' = inj_s + 1 /\ UNCHANGED inj_e
       ELSE inj_s' = 1 /\ inj_e' = inj_e + 1
    /\ UNCHANGED <<root, pc, stack, struct_map, top_i, entry_i, variants,
                   enum_size, err>>

\* The backfill loops are exhausted: Ok(result).
ReturnOk ==
    /\ UNCHANGED <<lvars, mvars, wvars, xvars>>
    /\ pc = "inject"
    /\ inj_e > Len(result.enums) \/ Len(result.sequences) = 0
    /\ pc' = "done"
    /\ UNCHANGED <<root, stack, struct_map, result, top_i, entry_i, variants,
                   enum_size, inj_e, inj_s, err>>

Next ==
    \/ CollectStep
    \/ CollectDone
    \/ ResolveSequence
    \/ EnumBegin
    \/ EnumEntry
    \/ EnumEnd
    \/ ResolveDone
    \/ InjectStep
    \/ ReturnOk

Spec == Init /\ [][Next]_vars

(***************************************************************************)
(* iter_depth_first on a node of a tree (ast/traverse.rs).                 *)
(***************************************************************************)
RECURSIVE Subtree(_, _)
\* The nodes of the subtree of the node at `path`, as paths.
Subtree(tree, path) ==
    {path} \cup UNION {Subtree(tree, path \o <<i>>) :
                          i \in 1..Len(Children(NodeAt(tree, path)))}

WalkFiles == NameFiles \cup ResolveFiles

\* DepthFirstSyntaxTreeInterator::new on a node of the tree.
WalkInit ==
    /\ root \in WalkFiles
    /\ walk_from \in Subtree(root, <<>>)
    /\ stack = <<walk_from>>
    /\ walked = <<>>
    /\ ExpectIdle
    /\ pc = "walk"
    /\ struct_map = EmptyMap
    /\ result = EmptySchema
    /\ top_i = 0
    /\ entry_i = 0
    /\ variants = <<>>
    /\ enum_size = 0
    /\ inj_e = 0
    /\ inj_s = 0
    /\ err = NoErr
    /\ LexerIdle
    /\ MainIdle

\* DepthFirstSyntaxTreeInterator::next returns Some(tree).
WalkNextSome ==
    /\ pc = "walk"
    /\ stack # <<>>
    /\ walked' = Append(walked, stack[Len(stack)])
    /\ stack' = DepthFirstNext(root, stack)
    /\ UNCHANGED <<root, pc, struct_map, result, top_i, entry_i, variants,
                   enum_size, inj_e, inj_s, err, walk_from>>
    /\ UNCHANGED <<lvars, mvars, xvars>>

\* DepthFirstSyntaxTreeInterator::next returns None.
WalkNextNone ==
    /\ pc = "walk"
    /\ stack = <<>>
    /\ pc' = "walked"
    /\ UNCHANGED <<root, stack, struct_map, result, top_i, entry_i, variants,
                   enum_size, inj_e, inj_s, err, walk_from, walked>>
    /\ UNCHANGED <<lvars, mvars, xvars>>

WalkNext ==
    \/ WalkNextSome
    \/ WalkNextNone

WalkSpec == WalkInit /\ [][WalkNext]_vars

(***************************************************************************)
(* The lexer and the syntax builder's constructor as a state machine.      *)
(***************************************************************************)
LexInit ==
    /\ source \in Sources
    /\ lex_pc = "start"
    /\ tok = NewTokenizer
    /\ lex_err = NoLexErr
    /\ yielded = <<>>
    /\ nones = 0
    /\ builder = "none"
    /\ current_token = NoToken
    /\ ast = NoResult
    /\ CompilerIdle
    /\ MainIdle

\* Tokenizer::new
TokenizerNew ==
    /\ lex_pc = "start"
    /\ LET r == Advance(source, NewTokenizer, TRUE)
       IN  /\ tok' = r.st
           /\ lex_err' = r.err
           /\ lex_pc' = IF r.ok THEN "ready" ELSE "failed"
    /\ UNCHANGED <<source, yielded, nones, builder, current_token, ast>>
    /\ UNCHANGED <<cvars, mvars, wvars, xvars>>

\* Iterator::next on the tokenizer: pop().transpose()
IterNext ==
    /\ lex_pc = "ready"
    /\ nones < MaxNones
    /\ LET r == Pop(source, tok)
       IN  /\ tok' = r.st
           /\ IF ~r.ok
              THEN /\ yielded' = Append(yielded, ErrorItem(r.err))
                   /\ lex_err' = r.err
                   /\ UNCHANGED nones
              ELSE IF r.token = NoToken
              THEN /\ nones' = nones + 1
                   /\ UNCHANGED <<yielded, lex_err>>
              ELSE /\ yielded' = Append(yielded, r.token)
                   /\ UNCHANGED <<nones, lex_err>>
    /\ UNCHANGED <<source, lex_pc, builder, current_token, ast>>
    /\ UNCHANGED <<cvars, mvars, wvars, xvars>>

\* AstBuilder::new returns: Tokenizer::new, then the first tokens.next().
BuilderNewReturns ==
    LET r == Advance(source, NewTokenizer, TRUE)
        n == Pop(source, r.st)
    IN  IF ~r.ok
        THEN /\ tok' = r.st
             /\ lex_err' = r.err
             /\ builder' = "failed"
             /\ lex_pc' = "failed"
             /\ UNCHANGED current_token
        ELSE IF ~n.ok
        THEN /\ tok' = n.st
             /\ lex_err' = n.err
             /\ builder' = "failed"
             /\ lex_pc' = "failed"
             /\ UNCHANGED current_token
        ELSE /\ tok' = n.st
             /\ current_token' = n.token
             /\ builder' = "ok"
             /\ lex_pc' = "built"
             /\ UNCHANGED lex_err

\* AstBuilder::new
AstBuilderNew ==
    /\ lex_pc = "start"
    /\ BuilderNewReturns
    /\ UNCHANGED <<source, yielded, nones, ast>>
    /\ UNCHANGED <<cvars, mvars, wvars, xvars>>

LexNext ==
    \/ TokenizerNew
    \/ IterNext
    \/ AstBuilderNew

LexSpec == LexInit /\ [][LexNext]_vars

(***************************************************************************)
(* The syntax builder as a state machine: AstBuilder::new, then parse().   *)
(***************************************************************************)
ParseInit ==
    /\ source \in ParseSources
    /\ lex_pc = "start"
    /\ tok = NewTokenizer
    /\ lex_err = NoLexErr
    /\ yielded = <<>>
    /\ nones = 0
    /\ builder = "none"
    /\ current_token = NoToken
    /\ ast = NoResult
    /\ CompilerIdle
    /\ MainIdle

\* parse() has returned r.
ParseReturns(r) ==
    /\ ast' = IF r.ok THEN Ok(r.val) ELSE [ok |-> FALSE, err |-> r.err]
    /\ tok' = r.ps.tok
    /\ current_token' = r.ps.cur
    /\ lex_pc' = "parsed"

\* AstBuilder::parse
Parse ==
    /\ lex_pc = "built"
    /\ ParseReturns(BuildFile(source, [tok |-> tok, cur |-> current_token], <<>>))
    /\ UNCHANGED <<source, lex_err, yielded, nones, builder>>
    /\ UNCHANGED <<cvars, mvars, wvars, xvars>>

ParseNext ==
    \/ AstBuilderNew
    \/ Parse

ParseSpec == ParseInit /\ [][ParseNext]_vars

(***************************************************************************)
(* AstBuilder::expect, called with any token type on the builder as        *)
(* AstBuilder::new and the calls before it left it.                        *)
(***************************************************************************)
MaxExpectWords == 3

\* Words of several kinds, among them one that no rule matches.
ExpectWords == {WEnum, <<"E">>, <<"{">>, <<"}">>, <<"1">>, <<"$">>}

ExpectSources == {Join(ws) : ws \in SeqsUpTo(ExpectWords, MaxExpectWords)}

\* The token types.
TokenTypes == {SPEC[i].token : i \in DOMAIN SPEC} \ {"None"}

ExpectInit ==
    /\ source \in ExpectSources
    /\ lex_pc = "start"
    /\ tok = NewTokenizer
    /\ lex_err = NoLexErr
    /\ yielded = <<>>
    /\ nones = 0
    /\ builder = "none"
    /\ current_token = NoToken
    /\ ast = NoResult
    /\ CompilerIdle
    /\ MainIdle

\* expect(token_type) has returned r; an error ends the parse.
ExpectReturns(token_type, r) ==
    /\ expected' = [kind |-> token_type,
                    ret |-> IF r.ok THEN Ok(r.val) ELSE [ok |-> FALSE, err |-> r.err]]
    /\ tok' = r.ps.tok
    /\ current_token' = r.ps.cur
    /\ lex_pc' = IF r.ok THEN "built" ELSE "failed"

\* AstBuilder::expect
ExpectCall ==
    /\ lex_pc = "built"
    /\ \E token_type \in TokenTypes :
          ExpectReturns(token_type,
                        Expect(source, [tok |-> tok, cur |-> current_token], token_type))
    /\ UNCHANGED <<source, lex_err, yielded, nones, builder, ast>>
    /\ UNCHANGED <<cvars, mvars, wvars>>

ExpectNext ==
    \/ AstBuilderNew
    \/ ExpectCall

ExpectSpec == ExpectInit /\ [][ExpectNext]_vars

(***************************************************************************)
(* Properties of parse_ast.                                                *)
(***************************************************************************)
(* check_reserved on its own.                                              *)
(***************************************************************************)
ReservedInit ==
    /\ schema \in ReservedSchemas
    /\ reserved \in ReservedLists
    /\ checked = NoCheck
    /\ main_pc = "check"
    /\ generated = 0
    /\ exit_code = "none"
    /\ main_err = "none"
    /\ done_stages = <<>>
    /\ CompilerIdle
    /\ LexerIdle

\* CheckReservedCall with the result of the check not looked at.
CheckReservedIgnored ==
    /\ main_pc = "check"
    /\ checked' = CheckReserved(schema, reserved)
    /\ main_pc' = "generate"
    /\ done_stages' = Append(done_stages, "check_reserved")
    /\ UNCHANGED <<schema, reserved, generated, exit_code, main_err>>
    /\ UNCHANGED <<cvars, lvars, wvars, xvars>>

\* check_reserved(schema, &generator.reserved_identifiers(params)), whose
\* error returns from main_impl through `?`.
CheckReservedCall ==
    /\ main_pc = "check"
    /\ checked' = CheckReserved(schema, reserved)
    /\ IF CheckReserved(schema, reserved).ok
       THEN /\ main_pc' = "generate"
            /\ done_stages' = Append(done_stages, "check_reserved")
            /\ UNCHANGED main_err
       ELSE /\ main_pc' = "failed"
            /\ main_err' = "check_reserved"
            /\ UNCHANGED done_stages
    /\ UNCHANGED <<schema, reserved, generated, exit_code>>
    /\ UNCHANGED <<cvars, lvars, wvars, xvars>>

ReservedNext == CheckReservedCall

ReservedSpec == ReservedInit /\ [][ReservedNext]_vars

(***************************************************************************)
(* main_impl and main (simplebuffers-compiler/src/main.rs).                *)
(***************************************************************************)
MaxWords == 2

\* The spellings of the names that have more than one character.
Spellings ==
    << <<"u8", <<"u", "8">> >>, <<"i32", <<"i", "3", "2">> >>,
       <<"string", <<"s", "t", "r", "i", "n", "g">> >>,
       <<"Color", <<"C", "o", "l", "o", "r">> >>,
       <<"color", <<"c", "o", "l", "o", "r">> >>,
       <<"Point", <<"P", "o", "i", "n", "t">> >>,
       <<"Red", <<"R", "e", "d">> >>,
       <<"Green", <<"G", "r", "e", "e", "n">> >>,
       <<"Blue", <<"B", "l", "u", "e">> >> >>

\* The name a text spells.
Intern(text) ==
    IF \E i \in DOMAIN Spellings : Spellings[i][2] = text
    THEN Spellings[CHOOSE i \in DOMAIN Spellings : Spellings[i][2] = text][1]
    ELSE text[1]

\* The text of a name.
Spell(name) ==
    IF \E i \in DOMAIN Spellings : Spellings[i][1] = name
    THEN Spellings[CHOOSE i \in DOMAIN Spellings : Spellings[i][1] = name][2]
    ELSE <<name>>

RECURSIVE ForCompiler(_)
\* The tree parse() returned as parse_ast reads it: the same nodes, and an
\* entry's value as the text of its number.
ForCompiler(node) ==
    CASE node.k = "File" ->
            File([i \in DOMAIN node.children |-> ForCompiler(node.children[i])])
      [] node.k = "Sequence" ->
            SequenceNode(Intern(node.name),
                         [i \in DOMAIN node.fields |-> ForCompiler(node.fields[i])])
      [] node.k = "Enum" ->
            EnumNode(Intern(node.name),
                     [i \in DOMAIN node.entries |-> ForCompiler(node.entries[i])])
      [] node.k = "Field" -> FieldNode(Intern(node.name), ForCompiler(node.ty))
      [] node.k = "EnumEntry" -> EnumEntryNode(Intern(node.name), Decimal(node.value))
      [] node.k = "Type" -> TypeNode(Intern(node.name))
      [] node.k = "Array" -> ArrayNode(ForCompiler(node.elem))
      [] node.k = "OneOf" ->
            OneOfNode([i \in DOMAIN node.fields |-> ForCompiler(node.fields[i])])

RECURSIVE SpelledType(_)
\* A type of the schema with the names of its fields as texts.
SpelledType(ty) ==
    CASE ty.k = "OneOf" ->
            [ty EXCEPT !.fields =
                [i \in DOMAIN ty.fields |->
                    [ty.fields[i] EXCEPT !.name = Spell(@), !.ty = SpelledType(@)]]]
      [] ty.k = "Array" -> [ty EXCEPT !.elem = SpelledType(@)]
      [] OTHER -> ty

\* The schema parse_ast returned as check_reserved reads it.
Spelled(sch) ==
    [sequences |->
        [i \in DOMAIN sch.sequences |->
            [name |-> Spell(sch.sequences[i].name),
             fields |->
                [j \in DOMAIN sch.sequences[i].fields |->
                    [sch.sequences[i].fields[j] EXCEPT !.name = Spell(@),
                                                       !.ty = SpelledType(@)]]]],
     enums |->
        [i \in DOMAIN sch.enums |->
            [sch.enums[i] EXCEPT
                !.name = Spell(@),
                !.variants = [j \in DOMAIN @ |-> [@[j] EXCEPT !.name = Spell(@)]]]]]

\* enum E { a = 1 ; } sequence T { x : E ; y : u8 ; z : [ oneof { w : string ; } ] ; }
MainFile ==
    <<WEnum, <<"E">>, <<"{">>, <<"a">>, <<"=">>, <<"1">>, <<";">>, <<"}">>,
      WSequence, <<"T">>, <<"{">>, <<"x">>, <<":">>, <<"E">>, <<";">>, <<"y">>,
      <<":">>, Spell("u8"), <<";">>, <<"z">>, <<":">>, <<"[">>, WOneof, <<"{">>,
      <<"w">>, <<":">>, Spell("string"), <<";">>, <<"}">>, <<"]">>, <<";">>,
      <<"}">> >>

\* Words that end a file early: one no rule matches, a type that is not
\* declared, a declaration whose name is taken.
MainTails ==
    {<<>>, << <<"$">> >>,
     <<WSequence, <<"U">>, <<"{">>, <<"x">>, <<":">>, <<"Q">>, <<";">>, <<"}">> >>,
     <<WEnum, <<"E">>, <<"{">>, <<"}">> >>}

\* enum Color { Red = 0; Green = 1; Blue = 2; }
\* sequence Point { x: i32; y: i32; color: Color; }
ExampleSource ==
    Concat(<<WEnum, <<" ">>, Spell("Color"), <<" ", "{", " ">>,
             Spell("Red"), <<" ", "=", " ", "0", ";", " ">>,
             Spell("Green"), <<" ", "=", " ", "1", ";", " ">>,
             Spell("Blue"), <<" ", "=", " ", "2", ";", " ", "}", "\n">>,
             WSequence, <<" ">>, Spell("Point"), <<" ", "{", " ">>,
             <<"x", ":", " ">>, Spell("i32"), <<";", " ">>,
             <<"y", ":", " ">>, Spell("i32"), <<";", " ">>,
             Spell("color"), <<":", " ">>, Spell("Color"), <<";", " ", "}">> >>)

MainSources ==
    {Join(SubSeq(MainFile, 1, k) \o tail) :
        <<k, tail>> \in (0..Len(MainFile)) \X MainTails}
    \cup {ExampleSource}

\* The lists a generator's reserved_identifiers may return.
GeneratorWords == SeqsUpTo({<<"t">>, <<"W">>, NClass}, MaxWords)

MainInit ==
    /\ source \in MainSources
    /\ lex_pc = "start"
    /\ tok = NewTokenizer
    /\ lex_err = NoLexErr
    /\ yielded = <<>>
    /\ nones = 0
    /\ builder = "none"
    /\ current_token = NoToken
    /\ ast = NoResult
    /\ schema = EmptySchema
    /\ reserved = <<>>
    /\ checked = NoCheck
    /\ main_pc = "read"
    /\ generated = 0
    /\ exit_code = "none"
    /\ main_err = "none"
    /\ done_stages = <<>>
    /\ CompilerIdle

\* A stage of main_impl has returned: Ok, and main_impl goes on at `next`, or
\* an error that main_impl returns through `?`.
StageReturns(stage, ok, next) ==
    IF ok
    THEN /\ main_pc' = next
         /\ done_stages' = Append(done_stages, stage)
         /\ UNCHANGED main_err
    ELSE /\ main_pc' = "failed"
         /\ main_err' = stage
         /\ UNCHANGED done_stages

\* std::fs::read_to_string(cli.file): the file may not be readable.
ReadFile ==
    /\ main_pc = "read"
    /\ \E readable \in BOOLEAN : StageReturns("read", readable, "new")
    /\ UNCHANGED <<schema, reserved, checked, generated, exit_code>>
    /\ UNCHANGED <<cvars, lvars, wvars, xvars>>

\* ast::AstBuilder::new(raw_schema.as_str(), "test")
MainNew ==
    /\ main_pc = "new"
    /\ BuilderNewReturns
    /\ StageReturns("new", builder' = "ok", "parse")
    /\ UNCHANGED <<source, yielded, nones, ast>>
    /\ UNCHANGED <<schema, reserved, checked, generated, exit_code>>
    /\ UNCHANGED <<cvars, wvars, xvars>>

\* parser.parse()
MainParse ==
    /\ main_pc = "parse"
    /\ ParseReturns(BuildFile(source, [tok |-> tok, cur |-> current_token], <<>>))
    /\ StageReturns("parse", ast'.ok, "compile")
    /\ UNCHANGED <<source, lex_err, yielded, nones, builder>>
    /\ UNCHANGED <<schema, reserved, checked, generated, exit_code>>
    /\ UNCHANGED <<cvars, wvars, xvars>>

\* compiler::parse_ast(&ast) is entered.
MainCompileCall ==
    /\ main_pc = "compile"
    /\ main_pc' = "compiling"
    /\ root' = ForCompiler(ast.val)
    /\ pc' = "collect"
    /\ stack' = << <<>> >>
    /\ UNCHANGED <<struct_map, result, top_i, entry_i, variants, enum_size, inj_e,
                   inj_s, err>>
    /\ UNCHANGED <<schema, reserved, checked, generated, exit_code, main_err,
                   done_stages>>
    /\ UNCHANGED <<lvars, wvars, xvars>>

\* compiler::parse_ast(&ast) has returned.
MainCompileReturns ==
    /\ main_pc = "compiling"
    /\ pc \in {"done", "error"}
    /\ schema' = IF pc = "done" THEN Spelled(result) ELSE schema
    /\ StageReturns("parse_ast", pc = "done", "params")
    /\ UNCHANGED <<reserved, checked, generated, exit_code>>
    /\ UNCHANGED <<cvars, lvars, wvars, xvars>>

\* The file name of the generator's parameters: the path may have no file
\* stem, or one that is not Unicode.
MakeParams ==
    /\ main_pc = "params"
    /\ \E valid \in BOOLEAN : StageReturns("params", valid, "run")
    /\ UNCHANGED <<schema, reserved, checked, generated, exit_code>>
    /\ UNCHANGED <<cvars, lvars, wvars, xvars>>

\* run_from_lib up to generator.reserved_identifiers(params): the library or
\* the constructor may fail to load.
RunFromLib ==
    /\ main_pc = "run"
    /\ \E loaded \in BOOLEAN, words \in GeneratorWords :
        /\ StageReturns("load", loaded, "check")
        /\ reserved' = IF loaded THEN words ELSE reserved
    /\ UNCHANGED <<schema, checked, generated, exit_code>>
    /\ UNCHANGED <<cvars, lvars, wvars, xvars>>

\* run_internal up to generator.reserved_identifiers(params): there may be no
\* generator of the name.
RunInternal ==
    /\ main_pc = "run"
    /\ \E found \in BOOLEAN, words \in GeneratorWords :
        /\ StageReturns("find", found, "check")
        /\ reserved' = IF found THEN words ELSE reserved
    /\ UNCHANGED <<schema, checked, generated, exit_code>>
    /\ UNCHANGED <<cvars, lvars, wvars, xvars>>

\* generator.generate(schema, params), which may return an error.
Generate ==
    /\ main_pc = "generate"
    /\ generated' = generated + 1
    /\ \E ok \in BOOLEAN : StageReturns("generate", ok, "done")
    /\ UNCHANGED <<schema, reserved, checked, exit_code>>
    /\ UNCHANGED <<cvars, lvars, wvars, xvars>>

\* main: print the error of main_impl, if any, and return the exit code.
Exit ==
    /\ main_pc \in {"failed", "done"}
    /\ exit_code' = IF main_pc = "failed" THEN "FAILURE" ELSE "SUCCESS"
    /\ main_pc' = "exited"
    /\ UNCHANGED <<schema, reserved, checked, generated, main_err, done_stages>>
    /\ UNCHANGED <<cvars, lvars, wvars, xvars>>

MainNext ==
    \/ ReadFile
    \/ MainNew
    \/ MainParse
    \/ MainCompileCall
    \/ Next
    \/ MainCompileReturns
    \/ MakeParams
    \/ RunFromLib
    \/ RunInternal
    \/ CheckReservedCall
    \/ Generate
    \/ Exit

MainSpec == MainInit /\ [][MainNext]_vars

(***************************************************************************)
Finished == pc \in {"done", "error"}

RECURSIVE SumSizes(_, _)
\* The sum of the fixed sizes of the first n fields.
SumSizes(fields, n) ==
    IF n = 0 THEN 0 ELSE SumSizes(fields, n - 1) + TypeSize(fields[n].ty)

\* C1: in a returned schema every field of every sequence has as its offset the
\* sum of the final fixed sizes of the fields before it.
OffsetsAreSums ==
    pc = "done" =>
        \A s \in DOMAIN result.sequences :
            \A i \in DOMAIN result.sequences[s].fields :
                result.sequences[s].fields[i].index
                    = SumSizes(result.sequences[s].fields, i - 1)

\* A returned sequence in which two different enums, then another field follow
\* each other, all after the first field.
OffsetsWitness ==
    /\ pc = "done"
    /\ \E s \in DOMAIN result.sequences :
           LET fs == result.sequences[s].fields
           IN  /\ Len(fs) >= 3
               /\ \E i \in 1..(Len(fs) - 2) :
                      /\ fs[i].ty.k = "Enum" /\ fs[i].ty.size = 4
                      /\ fs[i + 1].ty.k = "Enum" /\ fs[i + 1].ty.size = 1
                      /\ fs[i + 2].ty.k = "OneOf"
                      /\ fs[i + 2].index = fs[i].index + 5

RECURSIVE OneOfIndexOk(_)
\* Every oneof in the type numbers its fields 0, 1, 2, ...
OneOfIndexOk(ty) ==
    CASE ty.k = "OneOf" ->
            \A i \in DOMAIN ty.fields :
                ty.fields[i].index = i - 1 /\ OneOfIndexOk(ty.fields[i].ty)
      [] ty.k = "Array" -> OneOfIndexOk(ty.elem)
      [] OTHER -> TRUE

\* C2: in a returned schema every field of every oneof, at any depth, has as
\* its index its 0-based position in the oneof.
OneOfOrdinals ==
    pc = "done" =>
        \A s \in DOMAIN result.sequences :
            \A i \in DOMAIN result.sequences[s].fields :
                OneOfIndexOk(result.sequences[s].fields[i].ty)

\* The files with the same sequences in the same order and the same enums in
\* the same order as the file.
Interleavings(file) ==
    LET n == Len(file.children)
        ofKind(f, kind) == SelectSeq(f, LAMBDA d : d.k = kind)
    IN  {File(f) : f \in
            {g \in [1..n -> Range(file.children)] :
                /\ ofKind(g, "Sequence") = ofKind(file.children, "Sequence")
                /\ ofKind(g, "Enum") = ofKind(file.children, "Enum")}}

\* C3: every other interleaving of the file's sequences and enums compiles to
\* the same schema, and fails if the file fails.
OrderIndependent ==
    /\ pc = "done" => \A f \in Interleavings(root) : ParseAst(f) = Ok(result)
    /\ pc = "error" => \A f \in Interleavings(root) : ~ParseAst(f).ok

\* A file compiled with a sequence that comes before an enum it refers to,
\* whose width is not 0 in the result, and which has another order.
OrderWitness ==
    /\ pc = "done"
    /\ Cardinality(Interleavings(root)) > 1
    /\ root.children[1].k = "Sequence"
    /\ \E j \in 2..Len(root.children) :
           /\ root.children[j].k = "Enum"
           /\ \E i \in DOMAIN result.sequences[1].fields :
                  LET f == result.sequences[1].fields[i]
                  IN  /\ f.ty.k = "Enum"
                      /\ f.ty.name = root.children[j].name
                      /\ f.ty.size > 1
                      /\ i < Len(result.sequences[1].fields)

RECURSIVE EnumRefsOk(_, _)
\* Every enum reference in the type has the size of the enum of that name.
EnumRefsOk(ty, enums) ==
    CASE ty.k = "Enum" ->
            /\ \E e \in DOMAIN enums : enums[e].name = ty.name
            /\ \A e \in DOMAIN enums : enums[e].name = ty.name => ty.size = enums[e].size
            /\ ty.size # 0
      [] ty.k = "Array" -> EnumRefsOk(ty.elem, enums)
      [] ty.k = "OneOf" -> \A i \in DOMAIN ty.fields : EnumRefsOk(ty.fields[i].ty, enums)
      [] OTHER -> TRUE

\* C4: in a returned schema no enum reference keeps the placeholder size: each
\* has the size of the declared enum of its name.
EnumSizesBackfilled ==
    pc = "done" =>
        \A s \in DOMAIN result.sequences :
            \A i \in DOMAIN result.sequences[s].fields :
                EnumRefsOk(result.sequences[s].fields[i].ty, result.enums)

\* A returned sequence with an enum reference in an array in a oneof and one in
\* an array of arrays.
BackfillWitness ==
    /\ pc = "done"
    /\ \E s \in DOMAIN result.sequences :
           LET fs == result.sequences[s].fields
           IN  /\ \E i \in DOMAIN fs :
                      /\ fs[i].ty.k = "OneOf"
                      /\ Len(fs[i].ty.fields) = 3
                      /\ fs[i].ty.fields[3].ty.k = "Array"
                      /\ fs[i].ty.fields[3].ty.elem = [k |-> "Enum", name |-> "F", size |-> 4]
               /\ \E i \in DOMAIN fs :
                      /\ fs[i].ty.k = "Array"
                      /\ fs[i].ty.elem.k = "Array"
                      /\ fs[i].ty.elem.elem = [k |-> "Enum", name |-> "E", size |-> 1]

\* The value fits in w bytes: its higher bytes are zero.
FitsBytes(v, w) ==
    CASE w = 1 -> v[1] = 0 /\ v[2] = 0 /\ v[3] = 0 /\ v[4] < 256
      [] w = 2 -> v[1] = 0 /\ v[2] = 0 /\ v[3] = 0
      [] w = 4 -> v[1] = 0 /\ v[2] = 0
      [] w = 8 -> TRUE

\* The smallest of the widths 1, 2, 4, 8 in which all the variants' values fit.
MinWidth(vs) ==
    CHOOSE w \in {1, 2, 4, 8} :
        /\ \A i \in DOMAIN vs : FitsBytes(vs[i].value, w)
        /\ \A u \in {1, 2, 4, 8} :
               (\A i \in DOMAIN vs : FitsBytes(vs[i].value, u)) => w <= u

\* C5: an accepted enum has the smallest of the widths 1, 2, 4, 8 that holds
\* all its values (1 if it has no entries), and while the entries are processed
\* the running width never decreases.
EnumWidthMinimal ==
    /\ [](\A e \in DOMAIN result.enums :
              /\ result.enums[e].size \in {1, 2, 4, 8}
              /\ result.enums[e].size = MinWidth(result.enums[e].variants))
    /\ [][pc = "enum" /\ pc' = "enum" => enum_size' >= enum_size]_vars

\* An accepted enum of three entries whose first value needs 8 bytes and whose
\* last fits in one.
EnumWidthWitness ==
    \E e \in DOMAIN result.enums :
        LET vs == result.enums[e].variants
        IN  /\ Len(vs) = 3
            /\ ~FitsBytes(vs[1].value, 4)
            /\ FitsBytes(vs[3].value, 1)
            /\ result.enums[e].size = 8

PrimitiveNames ==
    {"bool", "i8", "i16", "i32", "i64", "u8", "u16", "u32", "u64", "f32", "f64"}

\* Declaration j is named after a primitive type or after an earlier declaration.
Offending(file, j) ==
    \/ file.children[j].name \in PrimitiveNames
    \/ \E i \in 1..(j - 1) : file.children[i].name = file.children[j].name

\* The first offending declaration, 0 if there is none.
FirstOffending(file) ==
    IF \E j \in DOMAIN file.children : Offending(file, j)
    THEN CHOOSE j \in DOMAIN file.children :
            Offending(file, j) /\ \A i \in 1..(j - 1) : ~Offending(file, i)
    ELSE 0

\* C8: a file with a declaration named after a primitive type or after an
\* earlier declaration never gets past name collection and fails at the first
\* such declaration; any other file passes name collection with every name
\* recorded with its kind.
NamesChecked ==
    LET j == FirstOffending(root)
    IN  /\ j # 0 =>
            /\ pc \in {"collect", "error"}
            /\ pc = "error" =>
                   /\ err.at = <<j>>
                   /\ err.kind = IF root.children[j].name \in PrimitiveNames
                                 THEN "reserved" ELSE "exists"
        /\ j = 0 =>
            /\ err.kind \notin {"reserved", "exists"}
            /\ pc # "collect" =>
                   /\ DOMAIN struct_map = {d.name : d \in Range(root.children)}
                   /\ \A d \in Range(root.children) : struct_map[d.name] = d.k

\* parse_ast has failed at a third declaration, an enum named after a sequence.
NamesWitness ==
    /\ pc = "error"
    /\ err = [kind |-> "exists", at |-> <<3>>]
    /\ root.children[3].k = "Enum"
    /\ \E i \in 1..2 : /\ root.children[i].k = "Sequence"
                       /\ root.children[i].name = root.children[3].name

\* The list of fields has a name at j that occurs before j.
RepeatsAt(fields, j) == \E i \in 1..(j - 1) : fields[i].name = fields[j].name

RECURSIVE TypeHasDup(_)
\* Some oneof in the type has a field name twice.
TypeHasDup(ty) ==
    CASE ty.k = "OneOf" ->
            \/ \E j \in DOMAIN ty.fields : RepeatsAt(ty.fields, j)
            \/ \E j \in DOMAIN ty.fields : TypeHasDup(ty.fields[j].ty)
      [] ty.k = "Array" -> TypeHasDup(ty.elem)
      [] OTHER -> FALSE

\* Some sequence or oneof of the file has a field name twice.
FileHasDup(file) ==
    \E d \in Range(file.children) :
        /\ d.k = "Sequence"
        /\ \/ \E j \in DOMAIN d.fields : RepeatsAt(d.fields, j)
           \/ \E j \in DOMAIN d.fields : TypeHasDup(d.fields[j].ty)

\* C9: a file with a field name twice in one sequence or one oneof is never
\* compiled; the duplicate-field error is at the first field of its list that
\* repeats an earlier name; and no such error is raised when every sequence and
\* oneof has distinct field names, whatever names other scopes use.
FieldNamesChecked ==
    /\ pc = "done" => ~FileHasDup(root)
    /\ err.kind = "dup_field" =>
           LET parent == NodeAt(root, SubSeq(err.at, 1, Len(err.at) - 1))
               j == err.at[Len(err.at)]
           IN  /\ parent.k \in {"Sequence", "OneOf"}
               /\ RepeatsAt(parent.fields, j)
               /\ \A i \in 1..(j - 1) : ~RepeatsAt(parent.fields, i)
    /\ ~FileHasDup(root) => err.kind # "dup_field"
    /\ root \in ScopeFiles /\ ~FileHasDup(root) => pc # "error"

\* parse_ast has failed at the second x of a oneof in a oneof field x of a
\* sequence field x.
FieldNamesWitness ==
    /\ pc = "error"
    /\ err = [kind |-> "dup_field", at |-> <<1, 1, 1, 1, 1, 2>>]
    /\ root.children[1].fields[1].name = "x"
    /\ root.children[1].fields[1].ty.fields[1].name = "x"
    /\ root.children[1].fields[1].ty.fields[1].ty.fields[1].name = "x"
    /\ root.children[1].fields[1].ty.fields[1].ty.fields[2].name = "x"

RECURSIVE StripZeros(_)
\* A literal without its leading zeros.
StripZeros(text) ==
    IF Len(text) > 1 /\ text[1] = "0" THEN StripZeros(Tail(text)) ELSE text

\* Entry j of the enum has the name or the numeric value of an earlier entry.
EntryRepeatsAt(entries, j) ==
    \E i \in 1..(j - 1) :
        \/ entries[i].name = entries[j].name
        \/ StripZeros(entries[i].value) = StripZeros(entries[j].value)

\* C10: a file with an enum in which an entry has the name or the value of an
\* earlier entry is never compiled; a duplicate-entry error is at the first
\* entry of its enum that repeats an earlier one, by name or by value as the
\* error says; no such error is raised when no enum repeats a name or a value;
\* and accepted enums have distinct names and distinct values.
EnumEntriesChecked ==
    /\ pc = "done" =>
           \A d \in Range(root.children) :
               d.k = "Enum" => \A j \in DOMAIN d.entries : ~EntryRepeatsAt(d.entries, j)
    /\ err.kind \in {"dup_entry_name", "dup_entry_value"} =>
           /\ Len(err.at) = 2
           /\ LET es == root.children[err.at[1]].entries
                  j == err.at[2]
              IN  /\ err.kind = "dup_entry_name" =>
                         \E i \in 1..(j - 1) : es[i].name = es[j].name
                  /\ err.kind = "dup_entry_value" =>
                         \E i \in 1..(j - 1) :
                             StripZeros(es[i].value) = StripZeros(es[j].value)
                  /\ \A i \in 1..(j - 1) : ~EntryRepeatsAt(es, i)
    /\ (\A d \in Range(root.children) :
            d.k = "Enum" => \A j \in DOMAIN d.entries : ~EntryRepeatsAt(d.entries, j))
           => err.kind \notin {"dup_entry_name", "dup_entry_value"}
    /\ \A e \in DOMAIN result.enums :
           \A i, j \in DOMAIN result.enums[e].variants :
               i # j => /\ result.enums[e].variants[i].name
                            # result.enums[e].variants[j].name
                        /\ result.enums[e].variants[i].value
                            # result.enums[e].variants[j].value

\* parse_ast has failed at a third entry whose literal 00 has the value of the
\* first entry's 0; that first entry was accepted although the enum before has
\* the same entry.
EnumEntriesWitness ==
    /\ pc = "error"
    /\ err = [kind |-> "dup_entry_value", at |-> <<2, 3>>]
    /\ root.children[2].entries[1].value = <<"0">>
    /\ root.children[2].entries[3].value = <<"0", "0">>
    /\ root.children[2].entries[1] = root.children[1].entries[1]

\* The errors of the name collection and those of the resolution loop.
CollectErrors == {"reserved", "exists"}

ResolveErrors ==
    {"dup_field", "invalid_type", "invalid_integer", "dup_entry_name",
     "dup_entry_value"}

\* C11: name collection is over before anything is resolved: a file with a
\* declaration named after a primitive type or after an earlier declaration
\* gets the name-collection error of its first such declaration as the result
\* of parse_ast and never an error of the resolution loop, whatever the
\* declarations before it contain; and the resolution loop is entered only
\* when the traversal is exhausted.
CollectionComesFirst ==
    /\ [](LET j == FirstOffending(root)
          IN  j # 0 =>
                  /\ err.kind \notin ResolveErrors
                  /\ result = EmptySchema /\ variants = <<>>
                  /\ ~ParseAst(root).ok
                  /\ ParseAst(root).err.kind \in CollectErrors
                  /\ ParseAst(root).err.at = <<j>>
                  /\ pc = "error" => err = ParseAst(root).err)
    /\ [][pc = "collect" /\ pc' # "collect" =>
              \/ pc' = "error" /\ err'.kind \in CollectErrors
              \/ pc' = "resolve" /\ stack = <<>>]_vars

\* parse_ast has failed at a second declaration named after the first, an
\* enum whose second entry repeats the name of its first.
CollectionFirstWitness ==
    /\ pc = "error"
    /\ err = [kind |-> "exists", at |-> <<2>>]
    /\ root.children[1].k = "Enum"
    /\ Len(root.children[1].entries) = 2
    /\ root.children[1].entries[1].name = root.children[1].entries[2].name
    /\ root.children[2].name = root.children[1].name

\* The primitive a type identifier names.
PrimitiveOf(name) ==
    CASE name = "bool" -> "Bool" [] name = "i8" -> "I8" [] name = "i16" -> "I16"
      [] name = "i32" -> "I32" [] name = "i64" -> "I64" [] name = "u8" -> "U8"
      [] name = "u16" -> "U16" [] name = "u32" -> "U32" [] name = "u64" -> "U64"
      [] name = "f32" -> "F32" [] name = "f64" -> "F64"

\* The type identifier resolves to nothing.
Unresolvable(name, m) ==
    name # "string" /\ name \notin DOMAIN m /\ name \notin PrimitiveNames

RECURSIVE Resolves(_, _, _, _)
\* The resolved type is the resolution of the type node under the symbol
\* table; enum references have the placeholder size if `placeholder`.
Resolves(node, ty, m, placeholder) ==
    CASE node.k = "Type" ->
            IF node.name = "string" THEN ty = [k |-> "String"]
            ELSE IF node.name \in DOMAIN m THEN
                IF m[node.name] = "Sequence"
                THEN ty = [k |-> "Sequence", name |-> node.name]
                ELSE /\ ty.k = "Enum" /\ ty.name = node.name
                     /\ placeholder => ty.size = 0
            ELSE /\ node.name \in PrimitiveNames
                 /\ ty = [k |-> "Primitive", p |-> PrimitiveOf(node.name)]
      [] node.k = "Array" ->
            ty.k = "Array" /\ Resolves(node.elem, ty.elem, m, placeholder)
      [] node.k = "OneOf" ->
            /\ ty.k = "OneOf"
            /\ Len(ty.fields) = Len(node.fields)
            /\ \A i \in DOMAIN node.fields :
                   Resolves(node.fields[i].ty, ty.fields[i].ty, m, placeholder)

RECURSIVE HasUnresolvable(_, _)
\* Some type identifier in the type node, at any depth, resolves to nothing.
HasUnresolvable(node, m) ==
    CASE node.k = "Type" -> Unresolvable(node.name, m)
      [] node.k = "Array" -> HasUnresolvable(node.elem, m)
      [] node.k = "OneOf" ->
            \E i \in DOMAIN node.fields : HasUnresolvable(node.fields[i].ty, m)

\* The sequence declarations of the file, in order.
SequenceDecls(file) == SelectSeq(file.children, LAMBDA d : d.k = "Sequence")

\* C12: every field of every resolved sequence has the type its type node
\* resolves to: the string type for `string`, else the sequence or enum of
\* that name in the symbol table (the enum with size 0 until the backfill),
\* else the primitive of that name, arrays and oneofs by their parts; the
\* 'not a valid type' error is at a type identifier that is none of these; and
\* a file with such an identifier at any depth in a sequence is never compiled.
TypesResolveInOrder ==
    /\ \A s \in DOMAIN result.sequences :
           LET decl == SequenceDecls(root)[s]
           IN  /\ Len(result.sequences[s].fields) = Len(decl.fields)
               /\ \A i \in DOMAIN decl.fields :
                      Resolves(decl.fields[i].ty, result.sequences[s].fields[i].ty,
                               struct_map, pc \in {"resolve", "enum"})
    /\ err.kind = "invalid_type" =>
           /\ NodeAt(root, err.at).k = "Type"
           /\ Unresolvable(NodeAt(root, err.at).name, struct_map)
    /\ pc = "done" =>
           \A d \in Range(root.children) :
               d.k = "Sequence" =>
                   \A i \in DOMAIN d.fields : ~HasUnresolvable(d.fields[i].ty, struct_map)

\* A sequence is resolved, before the backfill, with a field of the string
\* type although a declaration has the name `string`, and with an enum field.
TypesResolveWitness ==
    /\ pc = "resolve"
    /\ "string" \in DOMAIN struct_map
    /\ Len(result.sequences) >= 1
    /\ Len(result.sequences[1].fields) = 2
    /\ result.sequences[1].fields[1].ty = [k |-> "String"]
    /\ result.sequences[1].fields[2].ty = [k |-> "Enum", name |-> "E", size |-> 0]

\* parse_ast has failed at an unknown type identifier in an array in a oneof
\* in a oneof.
TypesFailWitness ==
    /\ pc = "error"
    /\ err = [kind |-> "invalid_type", at |-> <<1, 2, 1, 2, 1, 1, 1, 1>>]
    /\ NodeAt(root, err.at) = TypeNode("Q")

\* The text at position i on is at most the text of the same length `max`.
RECURSIVE DigitsLe(_, _, _)
DigitsLe(text, max, i) ==
    \/ i > Len(text)
    \/ DigitVal(text[i]) < DigitVal(max[i])
    \/ DigitVal(text[i]) = DigitVal(max[i]) /\ DigitsLe(text, max, i + 1)

\* The text is a decimal numeral of a value that is at most the value of the
\* numeral `max` (which has no leading zero).
DecimalAtMost(text, max) ==
    /\ text # <<>>
    /\ \A i \in DOMAIN text : IsDigit(text[i])
    /\ LET t == StripZeros(text)
       IN  \/ Len(t) < Len(max)
           \/ Len(t) = Len(max) /\ DigitsLe(t, max, 1)

DecimalU64Max ==
    <<"1", "8", "4", "4", "6", "7", "4", "4", "0", "7", "3", "7", "0", "9", "5",
      "5", "1", "6", "1", "5">>

DecimalU32Max == <<"4", "2", "9", "4", "9", "6", "7", "2", "9", "5">>

\* The file `enum E { a = <literal>; }` as a syntax tree with the raw literal.
LitTree(lit) == File(<<EnumNode("E", <<EnumEntryNode("a", lit)>>)>>)

\* C13: an enum entry's number literal reaches the semantic compiler as its
\* raw text, whatever the text: the syntax builder returns the file, and the
\* entry's value reads as the literal's text; and parse_ast accepts the file
\* with that text exactly when
\* the text is a decimal numeral of at most 2^64 - 1, with width 8 above
\* 2^32 - 1.
NumbersValidatedLate ==
    \A lit \in NumberLits :
        lex_pc = "parsed" /\ source = Join(LitFile(lit)) =>
            /\ ast.ok
            /\ Len(ast.val.children) = 1
            /\ Len(ast.val.children[1].entries) = 1
            /\ Decimal(ast.val.children[1].entries[1].value) = lit
            /\ ParseAst(LitTree(lit)).ok <=> DecimalAtMost(lit, DecimalU64Max)
            /\ ParseAst(LitTree(lit)).ok /\ ~DecimalAtMost(lit, DecimalU32Max) =>
                   ParseAst(LitTree(lit)).val.enums[1].size = 8

RECURSIVE TypeFieldNames(_)
\* The names of the fields of the oneofs in the type, at any depth.
TypeFieldNames(ty) ==
    CASE ty.k = "OneOf" ->
            {ty.fields[i].name : i \in DOMAIN ty.fields}
            \cup UNION {TypeFieldNames(ty.fields[i].ty) : i \in DOMAIN ty.fields}
      [] ty.k = "Array" -> TypeFieldNames(ty.elem)
      [] OTHER -> {}

\* Every name the schema declares.
DeclaredNames(sch) ==
    {sch.sequences[i].name : i \in DOMAIN sch.sequences}
    \cup UNION {{sch.sequences[i].fields[j].name : j \in DOMAIN sch.sequences[i].fields} :
                   i \in DOMAIN sch.sequences}
    \cup UNION {UNION {TypeFieldNames(sch.sequences[i].fields[j].ty) :
                          j \in DOMAIN sch.sequences[i].fields} :
                   i \in DOMAIN sch.sequences}
    \cup {sch.enums[i].name : i \in DOMAIN sch.enums}
    \cup UNION {{sch.enums[i].variants[j].name : j \in DOMAIN sch.enums[i].variants} :
                   i \in DOMAIN sch.enums}

\* The name is a reserved word, both in snake case.
IsReserved(name, reserved_words) ==
    \E i \in DOMAIN reserved_words : SnakeCase(name) = SnakeCase(reserved_words[i])

\* C14: check_reserved returns Ok only if no name the schema declares (of a
\* sequence, of a field of a sequence or of a oneof at any depth, also in a
\* oneof that is the element type of an array, of an enum or of a variant) is
\* a reserved word in snake case, and an error if one is.
ReservedNamesRejected ==
    main_pc \in {"generate", "failed"} /\ checked # NoCheck =>
        (checked.ok <=> \A n \in DeclaredNames(schema) : ~IsReserved(n, reserved))

(***************************************************************************)
(* Properties of the lexer and of AstBuilder::new.                         *)
(***************************************************************************)
RECURSIVE Boundaries(_, _)
\* The positions from pos on at which a match of a rule starts or ends: before
\* the first token, between two tokens and after the last one.
Boundaries(src, pos) ==
    LET sliced == SubSeq(src, pos + 1, Len(src))
    IN  IF pos >= Len(src) \/ FirstRule(sliced) = 0 THEN {pos}
        ELSE {pos} \cup Boundaries(src, pos + MatchLen(SPEC[FirstRule(sliced)], sliced))

\* Whitespace and a line comment ended by a newline.
Fillers == {<<" ">>, <<"\n">>, <<"/", "/", "a", "\n">>}

Insert(src, pos, text) ==
    SubSeq(src, 1, pos) \o text \o SubSeq(src, pos + 1, Len(src))

\* The lexer has been run to the end of its items.
LexerEnded == lex_pc = "ready" /\ nones > 0

\* C6: the tokens the lexer yields are those it yields when whitespace or a
\* line comment is inserted before the first token, between two tokens or
\* after the last token.
BlanksChangeNoToken ==
    LexerEnded =>
        \A pos \in Boundaries(source, 0) : \A w \in Fillers :
            TokenViews(LexItems(Insert(source, pos, w))) = TokenViews(yielded)

RECURSIVE SkipBlanks(_, _)
\* The position of the first character after the whitespace and comments that
\* start at pos.
SkipBlanks(src, pos) ==
    LET sliced == SubSeq(src, pos + 1, Len(src))
        i == FirstRule(sliced)
    IN  IF pos < Len(src) /\ i # 0 /\ SPEC[i].token = "None"
        THEN SkipBlanks(src, pos + MatchLen(SPEC[i], sliced))
        ELSE pos

\* No rule matches where the first token of the source should start.
FirstTokenUnlexable(src) ==
    LET pos == SkipBlanks(src, 0)
    IN  pos < Len(src) /\ FirstRule(SubSeq(src, pos + 1, Len(src))) = 0

\* C7: AstBuilder::new fails exactly when the lexer cannot produce the first
\* token of the source.
NewFailsOnFirstTokenOnly ==
    builder # "none" => (builder = "failed" <=> FirstTokenUnlexable(source))

\* The stages a run of main_impl must pass before the generator is run.
RequiredStages == <<"new", "parse", "parse_ast", "check_reserved">>

\* The required stages have returned Ok, in their order.
StagesInOrder(st) ==
    \E a, b, c, d \in DOMAIN st :
        /\ a < b /\ b < c /\ c < d
        /\ <<st[a], st[b], st[c], st[d]>> = RequiredStages

\* C15: generate is called at most once in a run and only when the lexer
\* has reached the end of the source without an error, parse() has returned
\* the tree, parse_ast has returned the schema of that tree and
\* check_reserved has accepted that schema for the generator's words, these
\* stages having returned Ok in that order; once one of the stages fails,
\* generate is never called, the error stays the one error of the run, the
\* only step left is the exit, and the exit status is FAILURE.
GenerateIsLast ==
    /\ [](generated <= 1)
    /\ [][generated' # generated =>
            /\ generated = 0 /\ generated' = 1
            /\ main_err = "none"
            /\ StagesInOrder(done_stages)
            /\ lex_err = NoLexErr /\ builder = "ok" /\ current_token = NoToken
            /\ ast.ok
            /\ ParseAst(ForCompiler(ast.val)).ok
            /\ schema = Spelled(ParseAst(ForCompiler(ast.val)).val)
            /\ checked.ok
            /\ checked = CheckReserved(schema, reserved)]_vars
    /\ [](main_err \in Range(RequiredStages) => generated = 0)
    /\ [][main_err # "none" =>
            /\ main_err' = main_err
            /\ generated' = generated
            /\ main_pc' = "exited"
            /\ exit_code' = "FAILURE"]_vars
    /\ [](exit_code = "SUCCESS" => main_err = "none" /\ generated = 1)

\* A run that generated code for a schema with a sequence, against a
\* generator that reserves words, and exited with SUCCESS.
GenerateWitness ==
    /\ exit_code = "SUCCESS"
    /\ generated = 1
    /\ reserved # <<>>
    /\ Len(schema.sequences) = 1
    /\ Len(schema.enums) = 1

\* A run whose check_reserved failed and that exited with FAILURE.
GenerateRefusedWitness ==
    /\ exit_code = "FAILURE"
    /\ main_err = "check_reserved"
    /\ generated = 0

\* C16: once next() has returned a TokenizerError, every later call of
\* next() returns None and leaves the tokenizer as it is: no item is yielded
\* after the error, the error is the only one, and the cursor stays at the
\* offending character whatever follows it.
NothingAfterError ==
    /\ [][lex_pc = "ready" /\ lex_err # NoLexErr =>
            /\ yielded' = yielded
            /\ lex_err' = lex_err
            /\ tok' = tok
            /\ nones' >= nones]_vars
    /\ [](lex_pc = "ready" =>
            \A i \in DOMAIN yielded :
                yielded[i].type = "Error" => i = Len(yielded) /\ lex_err # NoLexErr)

\* next() returned an error at a character that other characters follow, and
\* then None twice.
NothingAfterErrorWitness ==
    /\ lex_pc = "ready"
    /\ lex_err # NoLexErr
    /\ yielded # <<>>
    /\ yielded[Len(yielded)].type = "Error"
    /\ nones >= 2
    /\ tok.cursor + 1 < Len(source)
    /\ source[Len(source)] = "a"

\* The grammar of the schema language as an LL(1) table: what the symbol on
\* top of the stack is replaced by when the next token has the given kind; no
\* entry for a symbol and a kind means the token is of the wrong kind.
Expansion(symbol, kind) ==
    CASE symbol = "File" /\ kind = "Sequence" ->
            <<"Sequence", "Identifier", "OpenBrace", "Fields", "CloseBrace", "File">>
      [] symbol = "File" /\ kind = "Enum" ->
            <<"Enum", "Identifier", "OpenBrace", "Entries", "CloseBrace", "File">>
      [] symbol = "Fields" /\ kind = "Identifier" ->
            <<"Identifier", "Colon", "Type", "Semicolon", "Fields">>
      [] symbol = "Fields" /\ kind = "CloseBrace" -> <<>>
      [] symbol = "Entries" /\ kind = "Identifier" ->
            <<"Identifier", "Equals", "Number", "Semicolon", "Entries">>
      [] symbol = "Entries" /\ kind = "CloseBrace" -> <<>>
      [] symbol = "Type" /\ kind = "Identifier" -> <<"Identifier">>
      [] symbol = "Type" /\ kind = "OpenBracket" ->
            <<"OpenBracket", "Type", "CloseBracket">>
      [] symbol = "Type" /\ kind = "Oneof" ->
            <<"Oneof", "OpenBrace", "Fields", "CloseBrace">>
      [] symbol = kind -> <<>>
      [] OTHER -> <<"wrong">>

RECURSIVE Outcome(_, _, _)
\* What the grammar says of the tokens from the i-th on, with the symbols
\* still expected on the stack: the stream ends between declarations, it
\* ends inside a production, or the i-th token is of the wrong kind.
Outcome(tokens, i, symbols) ==
    IF i > Len(tokens)
    THEN IF symbols = <<"File">> THEN [is |-> "file"] ELSE [is |-> "eof"]
    ELSE IF Expansion(Head(symbols), tokens[i].type) = <<"wrong">>
    THEN [is |-> "token", token |-> tokens[i]]
    ELSE Outcome(tokens,
                 IF Head(symbols) = tokens[i].type THEN i + 1 ELSE i,
                 Expansion(Head(symbols), tokens[i].type) \o Tail(symbols))

\* The source is lexed to its end without an error.
LexesCleanly(src) == \A i \in DOMAIN LexItems(src) : LexItems(src)[i].type # "Error"

\* C17: on a source the lexer reads to its end, parse() returns
\* UnexpectedEof if the tokens end inside a sequence, enum, field,
\* enum-entry, array or oneof production, the File node if they end between
\* top-level declarations, and UnexpectedToken carrying the token if a token
\* is of a kind the grammar does not allow at its place.
EofIsNotAToken ==
    lex_pc = "parsed" /\ LexesCleanly(source) =>
        LET o == Outcome(LexItems(source), 1, <<"File">>)
        IN  CASE o.is = "file" -> ast.ok /\ ast.val.k = "File"
              [] o.is = "eof" -> ~ast.ok /\ ast.err = UnexpectedEof
              [] o.is = "token" -> ~ast.ok /\ ast.err = UnexpectedToken(o.token)

\* Path p comes before path q in pre-order: p is an ancestor of q, or where
\* the two first differ p takes the earlier child.
Precedes(p, q) ==
    \/ Len(p) < Len(q) /\ SubSeq(q, 1, Len(p)) = p
    \/ \E k \in (DOMAIN p) \cap (DOMAIN q) :
          /\ p[k] < q[k]
          /\ SubSeq(p, 1, k - 1) = SubSeq(q, 1, k - 1)

\* C18: the nodes iter_depth_first has returned are nodes of the subtree of
\* the node it was started at, each returned once, every one returned before
\* its descendants and, of two children of a node, the whole subtree of the
\* earlier before the later; and when it returns None it has returned every
\* node of the subtree.
WalkIsPreOrder ==
    pc \in {"walk", "walked"} =>
        /\ \A i \in DOMAIN walked : walked[i] \in Subtree(root, walk_from)
        /\ \A i, j \in DOMAIN walked : i < j => Precedes(walked[i], walked[j])
        /\ \A p \in Subtree(root, walk_from) :
              (\E j \in DOMAIN walked : Precedes(p, walked[j]))
                  => \E i \in DOMAIN walked : walked[i] = p
        /\ pc = "walked" => Range(walked) = Subtree(root, walk_from)

\* A walk that has ended, started below the root at a field whose type is a
\* oneof with a nested oneof.
WalkWitness ==
    /\ pc = "walked"
    /\ Len(walk_from) = 2
    /\ NodeAt(root, walk_from).k = "Field"
    /\ Len(walked) >= 7
    /\ \E i \in DOMAIN walked : Len(walked[i]) >= 6

\* C19: the example source passes the lexer, the syntax builder and
\* parse_ast, and its schema has the one enum Color of size 1 with the
\* values 0, 1 and 2 and the one sequence Point with x: i32 at offset 0,
\* y: i32 at offset 4 and color: the enum Color with size 1 at offset 8, the
\* sizes of the fields adding up to 9.
ExampleCompiles ==
    source = ExampleSource =>
        /\ main_err \notin {"new", "parse", "parse_ast"}
        /\ "parse_ast" \in Range(done_stages) =>
            /\ Len(schema.enums) = 1
            /\ schema.enums[1].name = Spell("Color")
            /\ schema.enums[1].size = 1
            /\ [i \in 1..3 |-> <<schema.enums[1].variants[i].name,
                                   schema.enums[1].variants[i].value>>]
                 = << <<Spell("Red"), <<0, 0, 0, 0>> >>,
                      <<Spell("Green"), <<0, 0, 0, 1>> >>,
                      <<Spell("Blue"), <<0, 0, 0, 2>> >> >>
            /\ Len(schema.sequences) = 1
            /\ schema.sequences[1].name = Spell("Point")
            /\ schema.sequences[1].fields =
                   << Field(<<"x">>, [k |-> "Primitive", p |-> "I32"], 0),
                      Field(<<"y">>, [k |-> "Primitive", p |-> "I32"], 4),
                      Field(Spell("color"),
                            [k |-> "Enum", name |-> "Color", size |-> 1], 8) >>
            /\ SumSizes(schema.sequences[1].fields, 3) = 9

\* The example was compiled and handed to a generator.
ExampleWitness ==
    /\ source = ExampleSource
    /\ exit_code = "SUCCESS"
    /\ generated = 1

\* Values of the variant that is added: within the width of one byte and
\* beyond every narrower width.
AddedLits ==
    {<<"7">>, <<"2", "5", "6">>, <<"6", "5", "5", "3", "7">>,
     <<"4", "2", "9", "4", "9", "6", "7", "2", "9", "7">>}

\* The file with the variant zz of the value added to its d-th declaration.
AddVariant(file, d, lit) ==
    [file EXCEPT !.children[d].entries = Append(@, EnumEntryNode("zz", lit))]

RECURSIVE Refers(_, _)
\* The type is, or holds at some depth, a reference to the enum.
Refers(ty, enum_name) ==
    CASE ty.k = "Enum" -> ty.name = enum_name
      [] ty.k = "Array" -> Refers(ty.elem, enum_name)
      [] ty.k = "OneOf" -> \E j \in DOMAIN ty.fields : Refers(ty.fields[j].ty, enum_name)
      [] OTHER -> FALSE

RECURSIVE SameType(_, _, _)
\* The two types differ at most in the size recorded in references to the
\* enum.
SameType(t1, t2, enum_name) ==
    CASE t1.k = "Enum" /\ t1.name = enum_name -> t2.k = "Enum" /\ t2.name = enum_name
      [] t1.k = "Array" -> t2.k = "Array" /\ SameType(t1.elem, t2.elem, enum_name)
      [] t1.k = "OneOf" ->
            /\ t2.k = "OneOf"
            /\ Len(t2.fields) = Len(t1.fields)
            /\ \A j \in DOMAIN t1.fields :
                  /\ t2.fields[j].name = t1.fields[j].name
                  /\ t2.fields[j].index = t1.fields[j].index
                  /\ SameType(t1.fields[j].ty, t2.fields[j].ty, enum_name)
      [] OTHER -> t2 = t1

\* The two sequences differ at most in the size recorded in references to
\* the enum and in the offsets of fields after a field with such a reference.
SameSequence(s1, s2, enum_name) ==
    /\ s2.name = s1.name
    /\ Len(s2.fields) = Len(s1.fields)
    /\ \A i \in DOMAIN s1.fields :
          /\ s2.fields[i].name = s1.fields[i].name
          /\ SameType(s1.fields[i].ty, s2.fields[i].ty, enum_name)
          /\ (\A j \in 1..(i - 1) : ~Refers(s1.fields[j].ty, enum_name))
                => s2.fields[i].index = s1.fields[i].index

\* The two schemas differ at most in the enum and in what of it shows in the
\* sequences.
SameButEnum(r1, r2, enum_name) ==
    /\ Len(r2.enums) = Len(r1.enums)
    /\ \A i \in DOMAIN r1.enums :
          IF r1.enums[i].name = enum_name
          THEN r2.enums[i].name = enum_name
          ELSE r2.enums[i] = r1.enums[i]
    /\ Len(r2.sequences) = Len(r1.sequences)
    /\ \A i \in DOMAIN r1.sequences :
          SameSequence(r1.sequences[i], r2.sequences[i], enum_name)

\* C20: when a file compiles and still compiles with one more variant, of a
\* small or a wide value, in one of its enums, the two schemas have the same
\* other enums, sizes included, and the same sequences but for the size
\* recorded in references to that enum and the offsets of the fields of a
\* sequence that come after a field with such a reference.
EnumGrowthIsLocal ==
    pc = "done" =>
        \A d \in DOMAIN root.children, lit \in AddedLits :
            root.children[d].k = "Enum" /\ ParseAst(AddVariant(root, d, lit)).ok =>
                SameButEnum(result, ParseAst(AddVariant(root, d, lit)).val,
                            root.children[d].name)

\* The position where the rule matches that start at position 0 end: the end
\* of the source, or the first character no rule matches.
FirstUnmatched(src) ==
    CHOOSE p \in Boundaries(src, 0) : \A q \in Boundaries(src, 0) : q <= p

\* The newlines among the first p characters.
NewlinesBefore(src, p) == {i \in 1..p : src[i] = "\n"}

\* The number of characters between the last newline among the first p
\* characters and the character after them.
ColumnAt(src, p) ==
    IF NewlinesBefore(src, p) = {} THEN p
    ELSE p - (CHOOSE i \in NewlinesBefore(src, p) :
                  \A j \in NewlinesBefore(src, p) : j <= i)

\* C21: a TokenizerError is at the first character of the source that no
\* rule matches: its line is the number of newlines before that character,
\* its column the number of characters between the last of them and that
\* character, and its width is 1.
ErrorIsLocated ==
    lex_err # NoLexErr =>
        /\ FirstUnmatched(source) < Len(source)
        /\ lex_err.line = Cardinality(NewlinesBefore(source, FirstUnmatched(source)))
        /\ lex_err.col = ColumnAt(source, FirstUnmatched(source))
        /\ lex_err.width = 1

\* An error at the start of the second line, after a token on the first.
ErrorIsLocatedWitness ==
    /\ lex_err # NoLexErr
    /\ lex_err.line = 1
    /\ lex_err.col = 0
    /\ tok.cursor = 2

RECURSIVE FieldNames(_, _, _)
RECURSIVE TypeNames(_, _)
\* The names declared by the fields from the i-th on, each with its target
\* and its qualified name, in the order of declaration.
FieldNames(fields, i, prefix) ==
    IF i > Len(fields) THEN <<>>
    ELSE <<[target |-> "Field", name |-> prefix \o fields[i].name, self |-> fields[i].name]>>
         \o TypeNames(fields[i].ty, prefix \o fields[i].name \o <<":", ":">>)
         \o FieldNames(fields, i + 1, prefix)

\* The names declared inside the type of a field that check_field looks at:
\* the fields of the oneof the type is.
TypeNames(ty, prefix) ==
    IF ty.k = "OneOf" THEN FieldNames(ty.fields, 1, prefix) ELSE <<>>

RECURSIVE EnumNames(_, _)
\* The names declared by the enums from the i-th on.
EnumNames(enums, i) ==
    IF i > Len(enums) THEN <<>>
    ELSE <<[target |-> "Enum", name |-> enums[i].name, self |-> enums[i].name]>>
         \o [j \in DOMAIN enums[i].variants |->
                [target |-> "EnumVar",
                 name |-> enums[i].name \o <<":", ":">> \o enums[i].variants[j].name,
                 self |-> enums[i].variants[j].name]]
         \o EnumNames(enums, i + 1)

RECURSIVE SequenceNames(_, _)
\* The names declared by the sequences from the i-th on.
SequenceNames(sequences, i) ==
    IF i > Len(sequences) THEN <<>>
    ELSE <<[target |-> "Sequence", name |-> sequences[i].name,
            self |-> sequences[i].name]>>
         \o FieldNames(sequences[i].fields, 1, sequences[i].name \o <<":", ":">>)
         \o SequenceNames(sequences, i + 1)

\* The names of a schema that check_reserved looks at, in its order: the
\* enums with their variants, then the sequences with their fields.
SchemaNames(sch) == EnumNames(sch.enums, 1) \o SequenceNames(sch.sequences, 1)

\* The name collides with the reserved word.
Collides(name, word) == SnakeCase(name) = SnakeCase(word)

\* C22: when check_reserved fails, its message names a name of the schema
\* that collides with a reserved word and that no colliding name it looks at
\* precedes:
\* the kind of the name, the name after its enclosing names, outermost
\* first, all joined by `::`, and the first reserved word it collides with.
FirstCollisionReported ==
    main_pc = "failed" /\ ~checked.ok =>
        \E i \in DOMAIN SchemaNames(schema) : \E w \in DOMAIN reserved :
            /\ DisplayError(checked) =
                   [target |-> SchemaNames(schema)[i].target,
                    name |-> SchemaNames(schema)[i].name,
                    matched |-> reserved[w]]
            /\ Collides(SchemaNames(schema)[i].self, reserved[w])
            /\ \A v \in 1..(w - 1) : ~Collides(SchemaNames(schema)[i].self, reserved[v])
            /\ \A j \in 1..(i - 1) : \A v \in DOMAIN reserved :
                  ~Collides(SchemaNames(schema)[j].self, reserved[v])

\* A collision of a field of a oneof nested in a oneof of a sequence, with
\* the second reserved word of the list.
FirstCollisionWitness ==
    /\ main_pc = "failed"
    /\ ~checked.ok
    /\ Len(checked.name_stack) = 3
    /\ Len(reserved) = 2
    /\ checked.matched = reserved[2]

\* A collision found after one in a oneof of an array that was passed over.
LaterCollisionWitness ==
    /\ main_pc = "failed"
    /\ ~checked.ok
    /\ checked.name = NMyId
    /\ checked.matched # NMyId
    /\ checked.name_stack = << <<"S">> >>
    /\ IsReserved(schema.sequences[1].fields[3].ty.elem.fields[1].name, reserved)

RECURSIVE Lexemes(_, _)
\* The tokens of the source from position pos on, as the rules cut them, up
\* to the end of the source or the first character no rule matches: each with
\* its type, its text and its location.
Lexemes(src, pos) ==
    LET sliced == SubSeq(src, pos + 1, Len(src))
        i == FirstRule(sliced)
    IN  IF pos >= Len(src) \/ i = 0 THEN <<>>
        ELSE (IF SPEC[i].token = "None" THEN <<>>
              ELSE <<Token(SPEC[i], SubSeq(sliced, 1, MatchLen(SPEC[i], sliced)),
                           Cardinality(NewlinesBefore(src, pos)), ColumnAt(src, pos))>>)
             \o Lexemes(src, pos + MatchLen(SPEC[i], sliced))

\* The token that follows the token in the source; NoToken if it is the last.
TokenAfter(src, token) ==
    LET ls == Lexemes(src, 0)
        i == CHOOSE j \in DOMAIN ls : ls[j] = token
    IN  IF i < Len(ls) THEN ls[i + 1] ELSE NoToken

\* C23: a call of expect with the type of the current token returns that
\* token and makes the token that follows it in the source the current
\* token; a call with another type, or without a current token, returns an
\* error and leaves the current token and the tokenizer as they are.
ExpectConsumesOrFails ==
    [][expected' # expected =>
          IF current_token # NoToken /\ current_token.type = expected'.kind
          THEN /\ expected'.ret = Ok(current_token)
               /\ current_token' = TokenAfter(source, current_token)
          ELSE /\ ~expected'.ret.ok
               /\ current_token' = current_token
               /\ tok' = tok]_vars

\* C24: when the lexer has been run to its end on a source with a character
\* no rule matches, the items it yielded are the tokens the rules cut from
\* the source before that character, in their order and each once, and after
\* them the one error.
TokensBeforeError ==
    LexerEnded /\ FirstUnmatched(source) < Len(source) =>
        /\ yielded # <<>>
        /\ yielded[Len(yielded)].type = "Error"
        /\ SubSeq(yielded, 1, Len(yielded) - 1) = Lexemes(source, 0)

\* The source ends in a line comment without a line end: the rules cut it up
\* to a position where `//` starts, and no line end follows.
EndsInComment(src) ==
    /\ HasPrefix(SubSeq(src, FirstUnmatched(src) + 1, Len(src)), <<"/", "/">>)
    /\ \A i \in FirstUnmatched(src) + 1 .. Len(src) : src[i] \notin LineEnds

\* C25: on a source that ends in a line comment without a line end, the
\* tokenizer is made, no item it yields is an error, and run to its end it
\* has yielded the tokens before the comment.
EndCommentIsSkipped ==
    EndsInComment(source) /\ lex_pc # "start" =>
        /\ lex_pc # "failed"
        /\ \A i \in DOMAIN yielded : yielded[i].type # "Error"
        /\ LexerEnded => yielded = Lexemes(source, 0)

\* A word of the identifier pattern that goes on after a keyword.
StartsWithKeyword(src) ==
    /\ \A i \in DOMAIN src : src[i] \in IdentChars
    /\ \E i \in DOMAIN SPEC :
          /\ SPEC[i].token \in {"Sequence", "Oneof", "Enum"}
          /\ HasPrefix(src, SPEC[i].lit)
          /\ Len(src) > Len(SPEC[i].lit)

\* C26: a source that is one word of the identifier pattern going on after a
\* keyword is lexed as one Identifier with the whole word as its text.
KeywordIsWholeWord ==
    LexerEnded /\ StartsWithKeyword(source) =>
        /\ Len(yielded) = 1
        /\ yielded[1].type = "Identifier"
        /\ yielded[1].text = source

\* A word of the identifier pattern, [a-zA-Z_][a-zA-Z0-9_]*, that does not
\* start with a keyword.
IsPlainWord(src) ==
    /\ src # <<>>
    /\ src[1] \in Letters \cup {"_"}
    /\ \A i \in DOMAIN src : src[i] \in IdentChars
    /\ \A i \in DOMAIN SPEC :
          SPEC[i].token \in {"Sequence", "Oneof", "Enum"} => ~HasPrefix(src, SPEC[i].lit)

\* C27: the text of every Number the lexer yields starts with a digit, and a
\* source that is one word of the identifier pattern not starting with a
\* keyword is lexed as one Identifier with the whole word as its text.
NumberStartsWithDigit ==
    /\ \A i \in DOMAIN yielded :
          yielded[i].type = "Number" => yielded[i].text[1] \in Digits
    /\ LexerEnded /\ IsPlainWord(source) =>
          /\ Len(yielded) = 1
          /\ yielded[1].type = "Identifier"
          /\ yielded[1].text = source

RECURSIVE DeclaredResolve(_, _, _)
\* Every type identifier in the type node, at any depth, that is a name of
\* the symbol table is resolved to the sequence or the enum of that name.
DeclaredResolve(node, ty, m) ==
    CASE node.k = "Type" ->
            node.name \in DOMAIN m =>
                /\ ty.k = m[node.name]
                /\ ty.name = node.name
      [] node.k = "Array" ->
            ty.k = "Array" /\ DeclaredResolve(node.elem, ty.elem, m)
      [] node.k = "OneOf" ->
            /\ ty.k = "OneOf"
            /\ Len(ty.fields) = Len(node.fields)
            /\ \A i \in DOMAIN node.fields :
                   DeclaredResolve(node.fields[i].ty, ty.fields[i].ty, m)

\* C28: in a compiled file every type identifier that is the name of a
\* declaration in the symbol table is resolved to that sequence or enum, and
\* no name in the symbol table is a primitive's name or `string`.
DeclaredNamesResolve ==
    pc = "done" =>
        /\ \A s \in DOMAIN result.sequences :
               \A i \in DOMAIN SequenceDecls(root)[s].fields :
                   DeclaredResolve(SequenceDecls(root)[s].fields[i].ty,
                                   result.sequences[s].fields[i].ty, struct_map)
        /\ \A n \in DOMAIN struct_map : n \notin PrimitiveNames \cup {"string"}

RECURSIVE IsTypeTree(_)
\* The node is a Type, or an Array whose single child is such a node, or a
\* OneOf whose children are Fields, each with such a node as its single child.
IsTypeTree(node) ==
    \/ node.k = "Type"
    \/ node.k = "Array" /\ IsTypeTree(node.elem)
    \/ /\ node.k = "OneOf"
       /\ \A i \in DOMAIN node.fields :
              node.fields[i].k = "Field" /\ IsTypeTree(node.fields[i].ty)

\* The root is a File, its children are Sequences and Enums, the children
\* of a Sequence are Fields over type nodes and those of an Enum EnumEntries.
WellFormedTree(tree) ==
    /\ tree.k = "File"
    /\ \A d \in DOMAIN tree.children :
           \/ /\ tree.children[d].k = "Sequence"
              /\ \A i \in DOMAIN tree.children[d].fields :
                     /\ tree.children[d].fields[i].k = "Field"
                     /\ IsTypeTree(tree.children[d].fields[i].ty)
           \/ /\ tree.children[d].k = "Enum"
              /\ \A i \in DOMAIN tree.children[d].entries :
                     tree.children[d].entries[i].k = "EnumEntry"

\* C29: every tree parse() returns is well-formed (a File of Sequences and
\* Enums, Fields under a Sequence and a OneOf, EnumEntries under an Enum, one
\* type node under a Field and an Array), and parse_ast run on it returns a
\* schema or one of its errors.
ParsedTreeIsWellFormed ==
    ast.ok =>
        /\ WellFormedTree(ast.val)
        /\ \/ ParseAst(ForCompiler(ast.val)).ok
           \/ ParseAst(ForCompiler(ast.val)).err.kind \in CollectErrors \cup ResolveErrors

\* parse() has returned a sequence with an array field and a oneof field
\* that has a field of its own.
WellFormedWitness ==
    /\ ast.ok
    /\ Len(ast.val.children) = 1
    /\ ast.val.children[1].k = "Sequence"
    /\ Len(ast.val.children[1].fields) = 2
    /\ ast.val.children[1].fields[1].ty.k = "Array"
    /\ ast.val.children[1].fields[2].ty.k = "OneOf"
    /\ Len(ast.val.children[1].fields[2].ty.fields) = 1

\* parse() has returned an enum with an entry followed by a sequence, and
\* parse_ast compiles the tree.
WellFormedEnumWitness ==
    /\ ast.ok
    /\ Len(ast.val.children) = 2
    /\ ast.val.children[1].k = "Enum"
    /\ Len(ast.val.children[1].entries) = 1
    /\ ast.val.children[2].k = "Sequence"
    /\ ParseAst(ForCompiler(ast.val)).ok

\* In a step of the tokenizer the cursor does not go back nor beyond the end
\* of the source, a step that reads a token ahead moves it on by at least one
\* character, and the items yielded are at most one more than the characters
\* of the source.
LexerProgress ==
    /\ tok'.cursor >= tok.cursor
    /\ tok'.cursor <= Len(source)
    /\ tok'.next_token # NoToken /\ tok' # tok => tok'.cursor > tok.cursor
    /\ Len(yielded') <= Len(source) + 1

\* C30 as stated: the tokenizer makes progress as above, and a call of
\* next() with the cursor at the end of the source returns None.
CursorAtEndYieldsNone ==
    [][/\ LexerProgress
       /\ lex_pc = "ready" /\ tok.cursor = Len(source) =>
              yielded' = yielded /\ tok' = tok]_vars

\* C30: the tokenizer makes progress as above; a call of next() with the
\* cursor at the end of the source returns the token read ahead, if there is
\* one, and leaves none; and with none it returns None and changes nothing.
LexerTerminates ==
    [][/\ LexerProgress
       /\ lex_pc = "ready" /\ tok.cursor = Len(source) =>
              IF tok.next_token = NoToken
              THEN yielded' = yielded /\ tok' = tok
              ELSE /\ yielded' = Append(yielded, tok.next_token)
                   /\ tok' = [tok EXCEPT !.next_token = NoToken]]_vars

\* The tokenizer has yielded three tokens, its cursor is at the end of the
\* source with no token read ahead, and next() has returned None twice.
LexerTerminatesWitness ==
    /\ lex_pc = "ready"
    /\ tok.cursor = Len(source)
    /\ tok.next_token = NoToken
    /\ Len(yielded) = 3
    /\ \A i \in DOMAIN yielded : yielded[i].type # "Error"
    /\ nones = 2

====
